---- MODULE Spec2Model ----
(***************************************************************************)
(* A model of parts of rlink-rs:                                           *)
(*   - KafkaInputFormat::create_input_splits (connector-kafka)             *)
(*   - ChannelIterator / MultiChannelIterator (system_input_format.rs)     *)
(*   - named_channel_with_base and its metrics (channel/mod.rs)            *)
(*   - ElasticsearchOutputFormat and its writer tasks (elasticsearch_sink) *)
(*   - KafkaInputFormat::open, consumer_ranges and its CheckpointFunction  *)
(*   - CheckpointStorage over its two backends (storage/checkpoint/mod.rs) *)
(*   - vec_source and IteratorInputFormat (source/vec_input_format.rs)     *)
(*   - ChannelBaseOn: TryFrom<&str> and Display (channel/mod.rs)           *)
(*   - ResourceManager and its dispatch to the variants (deployment)       *)
(*   - SystemInputFormat::open and its subscriptions                       *)
(*   - IteratorInputFormat: open and record_iter in any order             *)
(* Each part has its own specification over its own variables; the         *)
(* variables of the other parts stay at their initial values.              *)
(***************************************************************************)
EXTENDS Integers, Sequences, FiniteSets, TLC

VARIABLES
    \* ---- create_input_splits ----
    sp_topics,      \* self.topics with the metadata the broker returns for each
    sp_min,         \* the argument min_num_splits
    sp_result,      \* what create_input_splits returned ("none" before the call)
    \* ---- SystemInputFormat and its iterators ----
    memory_receiver,    \* SystemInputFormat.memory_receiver is Some
    network_receiver,   \* SystemInputFormat.network_receiver is Some
    in_q,           \* the queue behind each receiver (1 memory, 2 network)
    in_conn,        \* whether a sender of that channel is still alive
    in_seq,         \* sequence number of the next element sent on it
    coord_status,   \* get_coordinator_status()
    it_receivers,   \* the receivers vector handed to the iterator
    it_pc,          \* where the task is in the iterator's next()
    it_index,       \* MultiChannelIterator: the index sel.ready() returned
    it_element,     \* the element just received
    in_sent,        \* history: the elements sent on each channel
    out,            \* history: what next() returned as Some, with its channel
    \* ---- named_channel_with_base and the channel it creates ----
    ch,             \* the channel: created, base_on, cap
    ch_q,           \* the messages queued in the crossbeam channel
    metrics,        \* the registered gauge and counters, by name
    snd_pc,         \* each sender thread: where it is in ChannelSender::send
    snd_n,          \* each sender thread: messages it has sent
    rcv_pc,         \* the receiver thread: where it is in ChannelReceiver::recv
    rcv_got,        \* history: per sender, the messages recv returned
    \* ---- ElasticsearchOutputFormat and ElasticsearchWriteThread ----
    es_state,       \* the output format: created, opened, closed, dropped
    es_handover,    \* the records queued in the sink's Handover
    es_accepted,    \* number of records passed to write_record so far
    es_writers,     \* each run0 task: where it is, and its bulk_bodies
    es_fails,       \* bulk requests that have failed so far
    es_written,     \* history: the records of the bulk requests that succeeded
    es_bulks,       \* history: the body of each bulk request issued
    \* ---- KafkaInputFormat as a source task ----
    kf_offset_range,    \* self.offset_range
    kf_handle,      \* context.checkpoint_handle: the offset it records, if any
    kf_checkpoint,  \* self.checkpoint: None, or the function with its state
    kf_pc,          \* the task: created, opened, or where it panicked
    kf_range,       \* the ConsumerRange open hands to create_kafka_consumer
    kf_calls,       \* history: calls of initialize_state and snapshot_state
    kf_barriers,    \* history: barriers the task has operated
    kf_snapshot,    \* what the last snapshot_state returned
    \* ---- CheckpointStorage ----
    ck_storage,     \* the enum variant CheckpointStorage::new returned
    ck_memory,      \* what the MemoryCheckpointStorage holds
    ck_mysql,       \* what the table of the MySqlCheckpointStorage holds
    ck_saved,       \* history: each save call, its vector and its result
    \* ---- vec_source ----
    vs_data,        \* a window of the vector data given to vec_source
    vs_first,       \* the index in data of the first record of the window
    vs_num_tasks,   \* context.task_id.num_tasks
    vs_tasks,       \* each source task: where it is, and its task_data
    vs_out,         \* history: what each task's iterator has returned
    \* ---- ChannelBaseOn ----
    cb_mode_str,    \* the argument of try_from, a string as its characters
    cb_result,      \* what try_from returned ("none" before the call)
    cb_value,       \* the value whose Display text is parsed ("none": a given string)
    \* ---- ResourceManager ----
    rm_k8s,         \* whether the build has the feature "k8s"
    rm_cluster_mode,    \* context.cluster_mode
    rm_manager,     \* the variant ResourceManager::new returned ("none" before)
    rm_called,      \* history: the calls on the manager and what they returned
    rm_forwarded,   \* history: the calls the variants received, with their results
    \* ---- SystemInputFormat::open ----
    so_parents,     \* context.parents: the parent tasks and their edges
    so_channel_size,    \* the property pub_sub.channel.size, if set
    so_channel_base,    \* the property pub_sub.channel.base, if set
    so_memory_receiver,     \* self.memory_receiver: the subscription it holds
    so_network_receiver,    \* self.network_receiver
    so_subscribed,  \* history: the calls of memory::subscribe, network::subscribe
    so_pc,          \* "new" or "opened"
    \* ---- IteratorInputFormat ----
    iif_self,       \* the fields vec_builder, input_split and context
    iif_log         \* history: the calls made on it and how each ended

sp_vars == <<sp_topics, sp_min, sp_result>>

in_vars == <<memory_receiver, network_receiver, in_q, in_conn, in_seq,
             coord_status, it_receivers, it_pc, it_index, it_element>>

hist_vars == <<in_sent, out>>

ch_vars == <<ch, ch_q, metrics, snd_pc, snd_n, rcv_pc, rcv_got>>

es_vars == <<es_state, es_handover, es_accepted, es_writers, es_fails,
             es_written, es_bulks>>

kf_vars == <<kf_offset_range, kf_handle, kf_checkpoint, kf_pc, kf_range,
             kf_calls, kf_barriers, kf_snapshot>>

ck_vars == <<ck_storage, ck_memory, ck_mysql, ck_saved>>

vs_vars == <<vs_data, vs_first, vs_num_tasks, vs_tasks, vs_out>>

cb_vars == <<cb_mode_str, cb_result, cb_value>>

\* The parts other than splits, iterators and channel.
rm_vars == <<rm_k8s, rm_cluster_mode, rm_manager, rm_called, rm_forwarded>>

so_vars == <<so_parents, so_channel_size, so_channel_base, so_memory_receiver,
            so_network_receiver, so_subscribed, so_pc>>

iif_vars == <<iif_self, iif_log>>

cn_vars == <<es_vars, kf_vars, ck_vars, vs_vars, cb_vars, rm_vars, so_vars, iif_vars>>

vars == <<sp_vars, in_vars, hist_vars, ch_vars, cn_vars>>

\* What each part leaves alone.
sp_rest == <<in_vars, hist_vars, ch_vars, cn_vars>>
in_rest == <<sp_vars, ch_vars, cn_vars>>
ch_rest == <<sp_vars, in_vars, hist_vars, cn_vars>>
es_rest == <<sp_vars, in_vars, hist_vars, ch_vars, kf_vars, ck_vars, vs_vars,
            cb_vars,
            rm_vars,
            so_vars,
            iif_vars>>
kf_rest == <<sp_vars, in_vars, hist_vars, ch_vars, es_vars, ck_vars, vs_vars,
            cb_vars,
            rm_vars,
            so_vars,
            iif_vars>>
ck_rest == <<sp_vars, in_vars, hist_vars, ch_vars, es_vars, kf_vars, vs_vars,
            cb_vars,
            rm_vars,
            so_vars,
            iif_vars>>
vs_rest == <<sp_vars, in_vars, hist_vars, ch_vars, es_vars, kf_vars, ck_vars,
            cb_vars,
            rm_vars,
            so_vars,
            iif_vars>>
cb_rest == <<sp_vars, in_vars, hist_vars, ch_vars,
            es_vars, kf_vars, ck_vars, vs_vars,
            rm_vars,
            so_vars,
            iif_vars>>
rm_rest == <<sp_vars, in_vars, hist_vars, ch_vars,
            es_vars, kf_vars, ck_vars, vs_vars, cb_vars,
            so_vars,
            iif_vars>>
so_rest == <<sp_vars, in_vars, hist_vars, ch_vars,
            es_vars, kf_vars, ck_vars, vs_vars, cb_vars, rm_vars,
            iif_vars>>
iif_rest == <<sp_vars, in_vars, hist_vars, ch_vars,
            es_vars, kf_vars, ck_vars, vs_vars, cb_vars, rm_vars, so_vars>>

----------------------------------------------------------------------------
(* Bounds of the model.                                                    *)

MaxTopics == 2      \* topics configured on a KafkaInputFormat
MaxParts == 3       \* partitions of one topic
MaxMinSplits == 5   \* min_num_splits (the source parallelism)
MaxSend == 3        \* elements sent on one channel when histories are kept
MaxQueue == 2       \* elements queued on one channel under endless traffic
SeqMod == 3         \* sequence numbers wrap at SeqMod under endless traffic
MaxCap == 2         \* capacity given to named_channel_with_base
MaxSenders == 2     \* sender clones of one channel
MaxMsgs == 2        \* messages one sender sends
MaxRecords == 3     \* records passed to write_record of one sink
MaxHandover == 2    \* capacity of the sink's Handover (10000 in open)
MaxBatch == 2       \* batch_size of the write thread (3000 in open)
MaxWriters == 2     \* parallelism of the write thread (5 in open)
MaxFails == 1       \* bulk requests that fail before all later ones succeed
MaxOffset == 2      \* offsets of a Kafka partition
MaxBarriers == 2    \* barriers a source task operates
MaxRuntimeCalls == 1    \* calls of initialize_state made by the runtime
MaxApps == 2        \* applications that share a checkpoint storage
MaxCheckpointId == 2    \* checkpoint ids
MaxTasks == 2       \* tasks of a job (handles of one checkpoint)
MaxSaves == 3       \* save calls on one storage
MaxData == 3        \* records of the window of data that is followed
MaxValue == 2       \* distinct record values
MaxNumTasks == 3    \* num_tasks of a vec_source
MaxCalls == 2       \* calls on one ResourceManager
MaxArgs == 2        \* distinct arguments of a call on the ResourceManager
MaxParents == 3     \* parent tasks of the task that opens its input
MaxChannelSize == 2 \* configured values of pub_sub.channel.size
MaxLifecycleCalls == 4  \* calls made on one IteratorInputFormat
MaxSplitId == 2     \* distinct input splits and contexts passed to open

----------------------------------------------------------------------------
(* KafkaInputFormat::create_input_splits                                   *)

\* InputSplit::new(index, properties) with the three properties the
\* enumeration sets: topic, partition, create_kafka_connection.
NewSplit(index, topic, partition) ==
    [split_number |-> index, topic |-> topic, partition |-> partition,
     create_kafka_connection |-> TRUE]

\* The loop test `index == min_num_splits` that leaves the partition loop.
BreakAt(index, min_num_splits) == index = min_num_splits

\* for partition in metadata_topic.partitions() { push; index += 1;
\*     if index == min_num_splits { break; } }
\* Partition ids of a topic with n partitions are 0 .. n-1.
RECURSIVE EnumPartitions(_, _, _, _, _, _)
EnumPartitions(topic, partition, n, acc, index, min_num_splits) ==
    IF partition >= n
    THEN [splits |-> acc, index |-> index]
    ELSE LET acc2 == Append(acc, NewSplit(index, topic, partition))
             index2 == index + 1
         IN  IF BreakAt(index2, min_num_splits)
             THEN [splits |-> acc2, index |-> index2]
             ELSE EnumPartitions(topic, partition + 1, n, acc2, index2,
                                 min_num_splits)

\* for topic in &self.topics { fetch_metadata?; topics().get(0).ok_or?; ... }
\* A topic whose metadata cannot be fetched, or is not found, ends the call
\* with Err through the `?` operator.
RECURSIVE EnumTopics(_, _, _, _, _)
EnumTopics(topics, t, acc, index, min_num_splits) ==
    IF t > Len(topics)
    THEN [ok |-> TRUE, splits |-> acc]
    ELSE IF ~topics[t].found
    THEN [ok |-> FALSE, splits |-> <<>>]
    ELSE LET r == EnumPartitions(t, 0, topics[t].partitions, acc, index,
                                 min_num_splits)
         IN  EnumTopics(topics, t + 1, r.splits, r.index, min_num_splits)

\* A faulty variant of Times: the quotient rounded down.
TimesFloor(min_num_splits, len) == min_num_splits \div len

\* let times = (min_num_splits as usize + input_splits.len() - 1)
\*             / input_splits.len();
Times(min_num_splits, len) == (min_num_splits + len - 1) \div len

\* A faulty variant of CloneSplit: the flag is left as the original has it.
CloneSplitKeepFlag(input_split) == input_split

\* InputSplit::new(split_number, properties) of the cloning loop: the
\* properties of the original with create_kafka_connection set to false.
CloneSplit(input_split) ==
    [input_split EXCEPT !.create_kafka_connection = FALSE]

\* A faulty variant of CloneRound: the clones are pushed in reverse order.
CloneRoundReversed(input_splits) ==
    [i \in 1..Len(input_splits) |->
        CloneSplit(input_splits[Len(input_splits) + 1 - i])]

\* for input_split in &input_splits { extend_input_splits.push(clone) }
CloneRound(input_splits) ==
    [i \in 1..Len(input_splits) |-> CloneSplit(input_splits[i])]

\* for _ in 1..times { one round }: the range 1..times has times - 1 values
\* (none when times <= 1).
RECURSIVE CloneRounds(_, _, _, _)
CloneRounds(input_splits, k, times, extend_input_splits) ==
    IF k >= times
    THEN [extend |-> extend_input_splits, rounds |-> k - 1]
    ELSE CloneRounds(input_splits, k + 1, times,
                     extend_input_splits \o CloneRound(input_splits))

\* The branch `input_splits.len() > min_num_splits` that returns Err.
TooMany(len, min_num_splits) == len > min_num_splits

\* The whole function. The result is one of
\*   [kind |-> "Ok", splits, originals, rounds]   Ok(input_splits)
\*   [kind |-> "Err"]                             Err(..)
\*   [kind |-> "Panic"]                           the integer division by
\*                                                zero of `times` aborts
\* originals and rounds record the length of the enumeration and the number
\* of cloning rounds performed.
create_input_splits(topics, min_num_splits) ==
    LET e == EnumTopics(topics, 1, <<>>, 0, min_num_splits)
        len == Len(e.splits)
    IN  IF ~e.ok THEN [kind |-> "Err"]
        ELSE IF TooMany(len, min_num_splits) THEN [kind |-> "Err"]
        ELSE IF len < min_num_splits
        THEN IF len = 0
             THEN [kind |-> "Panic"]
             ELSE LET c == CloneRounds(e.splits, 1,
                                       Times(min_num_splits, len), <<>>)
                  IN  [kind |-> "Ok", splits |-> e.splits \o c.extend,
                       originals |-> len, rounds |-> c.rounds]
        ELSE [kind |-> "Ok", splits |-> e.splits, originals |-> len,
              rounds |-> 0]

\* The metadata of one configured topic: found with n partitions, or not
\* available (fetch_metadata failed or the topic is unknown).
TopicMeta ==
    {[found |-> TRUE, partitions |-> n] : n \in 0..MaxParts}
        \cup {[found |-> FALSE, partitions |-> 0]}

TopicLists ==
    UNION {[1..n -> TopicMeta] : n \in 0..MaxTopics}

\* Total number of partitions of the configured topics.
RECURSIVE TotalPartitions(_, _)
TotalPartitions(topics, t) ==
    IF t > Len(topics) THEN 0
    ELSE topics[t].partitions + TotalPartitions(topics, t + 1)

AllFound(topics) == \A t \in 1..Len(topics) : topics[t].found

\* The iterator part at rest, for the specifications that do not use it.
InIdle ==
    /\ memory_receiver = FALSE
    /\ network_receiver = FALSE
    /\ in_q = <<>>
    /\ in_conn = <<>>
    /\ in_seq = <<>>
    /\ coord_status = "Running"
    /\ it_receivers = <<>>
    /\ it_pc = "off"
    /\ it_index = 0
    /\ it_element = [kind |-> "none", seq |-> 0]
    /\ in_sent = <<>>
    /\ out = <<>>

\* The channel part at rest, for the specifications that do not use it.
ChIdle ==
    /\ ch = [created |-> FALSE, base_on |-> "Unbounded", cap |-> 0]
    /\ ch_q = <<>>
    /\ metrics = [size |-> 0, accepted |-> 0, drain |-> 0]
    /\ snd_pc = [s \in 1..MaxSenders |-> "idle"]
    /\ snd_n = [s \in 1..MaxSenders |-> 0]
    /\ rcv_pc = "idle"
    /\ rcv_got = [s \in 1..MaxSenders |-> <<>>]

\* The Elasticsearch sink at rest, for the specifications that do not use
\* it.
EsIdle ==
    /\ es_state = "created"
    /\ es_handover = <<>>
    /\ es_accepted = 0
    /\ es_writers = [w \in 1..MaxWriters |-> [pc |-> "off", bulk_bodies |-> <<>>]]
    /\ es_fails = 0
    /\ es_written = {}
    /\ es_bulks = <<>>

\* Option<T>: None and Some(v).
None == [some |-> FALSE, v |-> 0]
Some(v) == [some |-> TRUE, v |-> v]

\* The Kafka source task at rest, for the specifications that do not use
\* it.
KfIdle ==
    /\ kf_offset_range = [kind |-> "None"]
    /\ kf_handle = None
    /\ kf_checkpoint = None
    /\ kf_pc = "created"
    /\ kf_range = None
    /\ kf_calls = [initialize_state |-> 0, before_open |-> 0,
                   by_runtime |-> 0, snapshot_state |-> 0]
    /\ kf_barriers = 0
    /\ kf_snapshot = None

\* A storage backend holding nothing: no vector under any key.
EmptyStore == [app \in 1..MaxApps |-> [id \in 1..MaxCheckpointId |-> <<>>]]

\* The checkpoint storage at rest, for the specifications that do not use
\* it.
CkIdle ==
    /\ ck_storage = "none"
    /\ ck_memory = EmptyStore
    /\ ck_mysql = EmptyStore
    /\ ck_saved = [app \in 1..MaxApps |-> [id \in 1..MaxCheckpointId |->
                       [finish_cks |-> <<>>, result |-> "none"]]]

\* The vec_source tasks at rest, for the specifications that do not use
\* them.
VsIdle ==
    /\ vs_data = <<>>
    /\ vs_first = 0
    /\ vs_num_tasks = 1
    /\ vs_tasks = [task_number \in 0..(MaxNumTasks - 1) |->
                       [pc |-> "off", task_data |-> <<>>]]
    /\ vs_out = [task_number \in 0..(MaxNumTasks - 1) |-> <<>>]

\* ChannelBaseOn::try_from at rest, for the specifications that do not use
\* it.
CbIdle ==
    /\ cb_mode_str = <<>>
    /\ cb_result = [kind |-> "none"]
    /\ cb_value = "none"

\* The resource manager at rest, for the specifications that do not use it.
RmIdle ==
    /\ rm_k8s = FALSE
    /\ rm_cluster_mode = "Local"
    /\ rm_manager = "none"
    /\ rm_called = <<>>
    /\ rm_forwarded = <<>>

\* SystemInputFormat::open at rest, for the specifications that do not use
\* it.
SoIdle ==
    /\ so_parents = <<>>
    /\ so_channel_size = None
    /\ so_channel_base = [some |-> FALSE, v |-> ""]
    /\ so_memory_receiver = None
    /\ so_network_receiver = None
    /\ so_subscribed = <<>>
    /\ so_pc = "new"

\* The IteratorInputFormat at rest, for the specifications that do not use
\* it.
IifIdle ==
    /\ iif_self = [vec_builder |-> Some(1), input_split |-> None,
                   context |-> None]
    /\ iif_log = <<>>

\* The parts other than splits, iterators and channel, at rest.
CnIdle ==
    /\ EsIdle
    /\ KfIdle
    /\ CkIdle
    /\ VsIdle
    /\ CbIdle
    /\ RmIdle
    /\ SoIdle
    /\ IifIdle

SplitsInit ==
    /\ sp_topics \in TopicLists
    /\ sp_min \in 0..MaxMinSplits
    /\ sp_result = [kind |-> "none"]
    /\ InIdle
    /\ ChIdle
    /\ CnIdle

CallCreateInputSplits ==
    /\ sp_result.kind = "none"
    /\ sp_result' = create_input_splits(sp_topics, sp_min)
    /\ UNCHANGED <<sp_topics, sp_min, sp_rest>>

SplitsNext == CallCreateInputSplits

SpecSplits == SplitsInit /\ [][SplitsNext]_vars

----------------------------------------------------------------------------
(* Claims about create_input_splits, checked under SpecSplits.             *)

Called == sp_result.kind # "none"

\* ceil(p / s) for s > 0, stated without the code's formula.
CeilDiv(p, s) == CHOOSE k \in 0..p : k * s >= p /\ (k - 1) * s < p

\* C1: with S partitions in total and 0 < S < P = min_num_splits,
\* create_input_splits returns exactly P input splits, for every such S
\* and P and not only when S divides P.
C1_ReturnsExactlyMinSplits ==
    LET S == TotalPartitions(sp_topics, 1)
    IN  (Called /\ AllFound(sp_topics) /\ 0 < S /\ S < sp_min)
            => (sp_result.kind = "Ok" /\ Len(sp_result.splits) = sp_min)

\* C2: whenever the configured topics hold more partitions in total than
\* min_num_splits, create_input_splits returns an error, for a single
\* topic as well as for several topics.
C2_TooManyPartitionsIsError ==
    (Called /\ TotalPartitions(sp_topics, 1) > sp_min)
        => sp_result.kind = "Err"

SameTopicPartition(a, b) ==
    a.topic = b.topic /\ a.partition = b.partition

\* C3: in every returned list, for each (topic, partition) pair exactly one
\* split has create_kafka_connection = true, it comes first (the original),
\* and every other split of that pair has create_kafka_connection = false.
C3_OneConnectionPerPartition ==
    sp_result.kind = "Ok" =>
        LET l == sp_result.splits
        IN  \A i \in 1..Len(l) :
                LET same == {j \in 1..Len(l) : SameTopicPartition(l[j], l[i])}
                    conn == {j \in same : l[j].create_kafka_connection}
                IN  /\ Cardinality(conn) = 1
                    /\ \A j \in same : \A c \in conn : c <= j

C3_Witness ==
    /\ sp_result.kind = "Ok"
    /\ sp_result.originals >= 2
    /\ \E i \in 1..Len(sp_result.splits) :
           ~sp_result.splits[i].create_kafka_connection

\* C4: when the enumeration yields S splits with 0 < S < P, exactly
\* ceil(P / S) - 1 rounds of cloning are performed, each appending one
\* clone of every original split in original order; when S = P no round is
\* performed.
C4_CloningRounds ==
    sp_result.kind = "Ok" =>
        LET l == sp_result.splits
            S == sp_result.originals
            R == sp_result.rounds
        IN  /\ (0 < S /\ S < sp_min) => R = CeilDiv(sp_min, S) - 1
            /\ S = sp_min => R = 0
            /\ Len(l) = S * (R + 1)
            /\ \A r \in 1..R : \A j \in 1..S :
                   /\ SameTopicPartition(l[r * S + j], l[j])
                   /\ l[r * S + j].split_number = l[j].split_number
                   /\ ~l[r * S + j].create_kafka_connection

C4_Witness ==
    /\ sp_result.kind = "Ok"
    /\ sp_result.originals = 2
    /\ sp_min = 5
    /\ sp_result.rounds = 2

\* C25: create_input_splits returns Ok or Err for every input, also when
\* the configured topics have no partition at all (or no topic is
\* configured) and min_num_splits > 0.
C25_AlwaysReturns ==
    Called => sp_result.kind \in {"Ok", "Err"}

\* C26: in the returned list with S original splits, the split at position
\* i (counted from 0) has the topic and partition of the original split at
\* position i mod S and the split_number i mod S; so the originals have the
\* split numbers 0..S-1 and a replica has the split number of its original.
C26_SplitNumberIsPositionModS ==
    sp_result.kind = "Ok" =>
        LET l == sp_result.splits
            S == sp_result.originals
        IN  \A i \in 0..(Len(l) - 1) :
                /\ l[i + 1].split_number = i % S
                /\ SameTopicPartition(l[i + 1], l[(i % S) + 1])

C26_Witness ==
    /\ sp_result.kind = "Ok"
    /\ sp_result.originals = 3
    /\ sp_result.rounds = 1
    /\ Len(sp_result.splits) = 6
    /\ sp_result.splits[1].topic # sp_result.splits[3].topic

----------------------------------------------------------------------------
(* SystemInputFormat::element_iter, ChannelIterator, MultiChannelIterator  *)

\* The receivers a SystemInputFormat can hold: 1 memory, 2 network.
Slots == 1..2

NoElement == [kind |-> "none", seq |-> 0]

Present(i) == (i = 1 /\ memory_receiver) \/ (i = 2 /\ network_receiver)

\* ChannelReceiver over a crossbeam channel: a message is queued.
HasMessage(i) == in_q[i] # <<>>

\* Select::ready / recv: the receive operation on channel i would not
\* block, because a message is queued or every sender is gone.
ReadyOp(i) == HasMessage(i) \/ ~in_conn[i]

\* A faulty variant of RecvTake: the newest message is taken instead of the oldest.
RecvTakeLast(q) ==
    [element |-> q[Len(q)], rest |-> SubSeq(q, 1, Len(q) - 1)]

\* ChannelReceiver::recv / try_recv returning Ok: the oldest queued message
\* leaves the queue.
RecvTake(q) == [element |-> Head(q), rest |-> Tail(q)]

\* get_coordinator_status().is_terminated()
IsTerminated(status) == status = "Terminated"

\* receivers.push(memory_receiver), receivers.push(network_receiver)
ReceiversOf(mem, net) ==
    (IF mem THEN <<1>> ELSE <<>>) \o (IF net THEN <<2>> ELSE <<>>)

\* match receivers.len() { 0 => panic, 1 => ChannelIterator,
\*                         _ => MultiChannelIterator }
IteratorEntry(n) ==
    IF n = 0 THEN "unsupported" ELSE IF n = 1 THEN "recv" ELSE "select"

ElementIter ==
    /\ it_pc = "opened"
    /\ it_receivers' = ReceiversOf(memory_receiver, network_receiver)
    /\ it_pc' = IteratorEntry(Len(it_receivers'))
    /\ UNCHANGED <<memory_receiver, network_receiver, in_q, in_conn, in_seq,
                   coord_status, it_index, it_element, in_rest>>

\* ChannelIterator::next, `match self.receiver.recv()`: recv blocks while
\* the queue is empty and connected; Ok(element) goes on to the status
\* test, Err panics.
ChannelRecv ==
    /\ it_pc = "recv"
    /\ ReadyOp(it_receivers[1])
    /\ IF HasMessage(it_receivers[1])
       THEN LET r == RecvTake(in_q[it_receivers[1]])
            IN  /\ it_element' = r.element
                /\ in_q' = [in_q EXCEPT ![it_receivers[1]] = r.rest]
                /\ it_index' = 1
                /\ it_pc' = "check"
       ELSE /\ it_pc' = "panicked"
            /\ UNCHANGED <<in_q, it_index, it_element>>
    /\ UNCHANGED <<memory_receiver, network_receiver, in_conn, in_seq,
                   coord_status, it_receivers, in_rest>>

\* ChannelIterator::next, the Ok arm: None when the coordinator status is
\* Terminated, else Some(element); the task then calls next() again.
ChannelCheck ==
    /\ it_pc = "check"
    /\ Len(it_receivers) = 1
    /\ it_pc' = IF IsTerminated(coord_status) THEN "finished" ELSE "recv"
    /\ UNCHANGED <<memory_receiver, network_receiver, in_q, in_conn, in_seq,
                   coord_status, it_receivers, it_index, it_element, in_rest>>

\* MultiChannelIterator::next, `let index = sel.ready()`: blocks until an
\* operation is ready and returns the index of one that is.
MultiSelect(index) ==
    /\ it_pc = "select"
    /\ index \in 1..Len(it_receivers)
    /\ ReadyOp(it_receivers[index])
    /\ it_index' = index
    /\ it_pc' = "try_recv"
    /\ UNCHANGED <<memory_receiver, network_receiver, in_q, in_conn, in_seq,
                   coord_status, it_receivers, it_element, in_rest>>

\* A faulty variant of RecvIndex: the first receiver is read whatever index is ready.
RecvIndexFirst(index) == 1

\* `self.receivers[index]`
RecvIndex(index) == index

\* The channel the element in hand was taken from.
TakenSlot == it_receivers[RecvIndex(it_index)]

\* MultiChannelIterator::next, `self.receivers[index].try_recv()`:
\* Ok(element) goes on to the status test, Empty loops, Disconnected panics.
MultiTryRecv ==
    /\ it_pc = "try_recv"
    /\ IF HasMessage(TakenSlot)
       THEN LET r == RecvTake(in_q[TakenSlot])
            IN  /\ it_element' = r.element
                /\ in_q' = [in_q EXCEPT ![TakenSlot] = r.rest]
                /\ it_pc' = "check"
       ELSE /\ it_pc' = IF in_conn[TakenSlot] THEN "select" ELSE "panicked"
            /\ UNCHANGED <<in_q, it_element>>
    /\ UNCHANGED <<memory_receiver, network_receiver, in_conn, in_seq,
                   coord_status, it_receivers, it_index, in_rest>>

\* MultiChannelIterator::next, the Ok arm.
MultiCheck ==
    /\ it_pc = "check"
    /\ Len(it_receivers) > 1
    /\ it_pc' = IF IsTerminated(coord_status) THEN "finished" ELSE "select"
    /\ UNCHANGED <<memory_receiver, network_receiver, in_q, in_conn, in_seq,
                   coord_status, it_receivers, it_index, it_element, in_rest>>

\* History of the Ok arm: what next() returns as Some(element).
Observe ==
    /\ out' = IF IsTerminated(coord_status)
              THEN out
              ELSE Append(out, [slot |-> TakenSlot, element |-> it_element])
    /\ UNCHANGED in_sent

(* The environment of the iterator: upstream senders and the coordinator.  *)

\* An upstream task sends a Record or a Barrier; at most one Barrier per
\* channel, histories kept.
SendLogged(i, kind) ==
    /\ Present(i)
    /\ in_conn[i]
    /\ in_seq[i] <= MaxSend
    /\ kind = "Barrier" =>
           \A k \in 1..Len(in_sent[i]) : in_sent[i][k].kind # "Barrier"
    /\ LET e == [kind |-> kind, seq |-> in_seq[i]]
       IN  /\ in_q' = [in_q EXCEPT ![i] = Append(@, e)]
           /\ in_sent' = [in_sent EXCEPT ![i] = Append(@, e)]
    /\ in_seq' = [in_seq EXCEPT ![i] = @ + 1]
    /\ UNCHANGED <<memory_receiver, network_receiver, in_conn, coord_status,
                   it_receivers, it_pc, it_index, it_element, out, in_rest>>

\* An upstream task sends records without end; no history is kept and the
\* sequence numbers wrap.
SendCyclic(i) ==
    /\ Present(i)
    /\ in_conn[i]
    /\ Len(in_q[i]) < MaxQueue
    /\ in_q' = [in_q EXCEPT
                   ![i] = Append(@, [kind |-> "Record", seq |-> in_seq[i]])]
    /\ in_seq' = [in_seq EXCEPT ![i] = (@ % SeqMod) + 1]
    /\ UNCHANGED <<memory_receiver, network_receiver, in_conn, coord_status,
                   it_receivers, it_pc, it_index, it_element, hist_vars,
                   in_rest>>

\* Every sender of channel i is dropped.
DropSenders(i) ==
    /\ Present(i)
    /\ in_conn[i]
    /\ in_conn' = [in_conn EXCEPT ![i] = FALSE]
    /\ UNCHANGED <<memory_receiver, network_receiver, in_q, in_seq,
                   coord_status, it_receivers, it_pc, it_index, it_element,
                   hist_vars, in_rest>>

\* The coordinator status becomes Terminated.
Terminate ==
    /\ coord_status = "Running"
    /\ coord_status' = "Terminated"
    /\ UNCHANGED <<memory_receiver, network_receiver, in_q, in_conn, in_seq,
                   it_receivers, it_pc, it_index, it_element, hist_vars,
                   in_rest>>

SplitsIdle ==
    /\ sp_topics = <<>>
    /\ sp_min = 0
    /\ sp_result = [kind |-> "none"]

\* The state after SystemInputFormat::open: each receiver is set or not.
IterInit ==
    /\ memory_receiver \in BOOLEAN
    /\ network_receiver \in BOOLEAN
    /\ in_q = [i \in Slots |-> <<>>]
    /\ in_conn = [i \in Slots |-> Present(i)]
    /\ in_seq = [i \in Slots |-> 1]
    /\ coord_status = "Running"
    /\ it_receivers = <<>>
    /\ it_pc = "opened"
    /\ it_index = 0
    /\ it_element = NoElement
    /\ in_sent = [i \in Slots |-> <<>>]
    /\ out = <<>>
    /\ SplitsIdle
    /\ ChIdle
    /\ CnIdle

\* The steps of the task thread inside the iterator.
IterStep ==
    \/ ElementIter
    \/ ChannelRecv
    \/ \E index \in Slots : MultiSelect(index)
    \/ MultiTryRecv
    \/ ChannelCheck
    \/ MultiCheck

IterNext ==
    \/ \E i \in Slots : \E kind \in {"Record", "Barrier"} : SendLogged(i, kind)
    \/ \E i \in Slots : DropSenders(i)
    \/ Terminate
    \/ ElementIter /\ UNCHANGED hist_vars
    \/ ChannelRecv /\ UNCHANGED hist_vars
    \/ \E index \in Slots : MultiSelect(index) /\ UNCHANGED hist_vars
    \/ MultiTryRecv /\ UNCHANGED hist_vars
    \/ ChannelCheck /\ Observe
    \/ MultiCheck /\ Observe

\* Histories kept, at most MaxSend elements per channel.
SpecIter == IterInit /\ [][IterNext]_vars

FanInNext ==
    \/ \E i \in Slots : SendCyclic(i)
    \/ \E i \in Slots : DropSenders(i)
    \/ Terminate
    \/ ElementIter /\ UNCHANGED hist_vars
    \/ ChannelRecv /\ UNCHANGED hist_vars
    \/ \E index \in Slots : MultiSelect(index) /\ UNCHANGED hist_vars
    \/ MultiTryRecv /\ UNCHANGED hist_vars
    \/ ChannelCheck /\ UNCHANGED hist_vars
    \/ MultiCheck /\ UNCHANGED hist_vars

\* Endless traffic, no histories. The task thread keeps running (weak
\* fairness of its steps) and sel.ready() picks among the ready operations
\* at random, so that an operation ready again and again is picked again
\* and again (strong fairness of each pick).
SpecFanIn ==
    /\ IterInit
    /\ [][FanInNext]_vars
    /\ WF_vars(IterStep /\ UNCHANGED hist_vars)
    /\ \A index \in Slots : SF_vars(MultiSelect(index) /\ UNCHANGED hist_vars)

----------------------------------------------------------------------------
(* Claims about the iterators.                                             *)

InNext == it_pc \in {"recv", "select", "try_recv", "check"}

AllDisconnected == \A i \in Slots : Present(i) => ~in_conn[i]

\* C5: when every upstream channel of a task is disconnected, the input
\* iterator yields the elements still queued and then ends by returning
\* None; it does not abort the task thread.
C5_DisconnectEndsWithNone ==
    AllDisconnected => it_pc # "panicked"

\* C6: once the coordinator status is Terminated, a task blocked in or
\* calling next() eventually gets None, in every execution, also when no
\* further element arrives on any input channel.
\* The formula also accepts the abort on a disconnected channel (C5), so
\* that what refutes it is a task that stays inside next() for ever.
C6_TerminatedEndsIteration ==
    (IsTerminated(coord_status) /\ InNext)
        ~> (it_pc = "finished" \/ it_pc = "panicked")

IsBarrierFrom(x, i) == x.slot = i /\ x.element.kind = "Barrier"

\* C7: with K >= 2 input channels, Barrier(C) is passed on once, only after
\* it was received on all K channels, and a record that follows the barrier
\* on its channel is held back until then.
C7_BarrierAlignment ==
    Len(it_receivers) >= 2 =>
        /\ \A p \in 1..Len(out) :
               (/\ out[p].element.kind = "Record"
                /\ \E b \in 1..(p - 1) : IsBarrierFrom(out[b], out[p].slot))
                   => \A j \in Slots :
                          \E b \in 1..(p - 1) : IsBarrierFrom(out[b], j)
        /\ Cardinality({p \in 1..Len(out) :
                           out[p].element.kind = "Barrier"}) <= 1

\* C8: in MultiChannelIterator a receiver that stays non-empty is not
\* starved: while next() keeps being called, the element at the head of
\* its queue is eventually taken, whatever the traffic on the others.
C8_NoStarvation ==
    \A i \in Slots : \A n \in 1..(SeqMod + 1) :
        (/\ Len(it_receivers) >= 2
         /\ in_q[i] # <<>>
         /\ Head(in_q[i]).seq = n)
            ~> \/ in_q[i] = <<>>
               \/ Head(in_q[i]).seq # n
               \/ it_pc \in {"finished", "panicked"}

C8_Witness ==
    /\ Len(it_receivers) >= 2
    /\ it_pc = "check"
    /\ TakenSlot = 2
    /\ in_q[1] # <<>>
    /\ in_q[2] # <<>>
    /\ in_seq[2] < it_element.seq

\* C9: the elements the iterator yields from one receiver appear in the
\* order in which they were sent on it, each at most once.
C9_PerReceiverFifo ==
    /\ \A p \in 1..Len(out) :
           /\ out[p].element.seq \in 1..Len(in_sent[out[p].slot])
           /\ in_sent[out[p].slot][out[p].element.seq] = out[p].element
    /\ \A p, r \in 1..Len(out) :
           (p < r /\ out[p].slot = out[r].slot)
               => out[p].element.seq < out[r].element.seq

C9_Witness ==
    /\ Len(out) >= 3
    /\ out[1].slot = 1
    /\ out[2].slot = 2
    /\ out[3].slot = 1

\* The elements taken out of channel i so far: those sent and no longer
\* queued.
TakenFrom(i) == SubSeq(in_sent[i], 1, Len(in_sent[i]) - Len(in_q[i]))

\* The elements of channel i that next() has returned.
YieldedFrom(i) ==
    LET yielded[k \in 0..Len(out)] ==
            IF k = 0 THEN <<>>
            ELSE IF out[k].slot = i THEN Append(yielded[k - 1], out[k].element)
                 ELSE yielded[k - 1]
    IN yielded[Len(out)]

\* The element next() holds between the receive and its return.
InHand(i) ==
    IF it_pc = "check" /\ TakenSlot = i THEN <<it_element>> ELSE <<>>

\* C24: the iterators yield no element while the coordinator status is
\* Terminated, and every element they take out of a receiver is yielded:
\* what was taken from a channel is what was yielded from it, followed by
\* the element in hand, so that no element is taken and then discarded.
C24_TakenIsYielded ==
    /\ [][IsTerminated(coord_status) => out' = out]_vars
    /\ [](\A i \in Slots : TakenFrom(i) = YieldedFrom(i) \o InHand(i))

----------------------------------------------------------------------------
(* named_channel_with_base, ChannelSender::send, ChannelReceiver::recv     *)

Senders == 1..MaxSenders

NoLimit == -1

\* A faulty variant of ChannelLimit: the arms of the match are swapped.
ChannelLimitSwapped(base_on, cap) ==
    IF base_on = "Bounded" THEN NoLimit ELSE cap

\* match base_on { Bounded => bounded(cap), Unbounded => unbounded() }:
\* the number of messages the crossbeam channel holds at most.
ChannelLimit(base_on, cap) ==
    IF base_on = "Bounded" THEN cap ELSE NoLimit

\* A faulty variant of HasRoom: a send never waits.
HasRoomAlways(q, limit) == TRUE

\* crossbeam bounded(cap) / unbounded(): a send finds room.
HasRoom(q, limit) == limit = NoLimit \/ Len(q) < limit

\* The metrics handed to the two ends: ChannelSender::new(.., size.clone(),
\* accepted_counter) and ChannelReceiver::new(.., size.clone(),
\* drain_counter).
SenderGauge == "size"
SenderCounter == "accepted"
ReceiverGauge == "size"
ReceiverCounter == "drain"

\* named_channel_with_base(name, tags, cap, base_on): the channel is
\* created, the gauge and the two counters are registered at 0, and the
\* sender clones start.
NamedChannelWithBase(cap, base_on) ==
    /\ ~ch.created
    /\ ch' = [created |-> TRUE, base_on |-> base_on, cap |-> cap]
    /\ ch_q' = <<>>
    /\ metrics' = [size |-> 0, accepted |-> 0, drain |-> 0]
    /\ snd_pc' = [s \in Senders |-> "idle"]
    /\ snd_n' = [s \in Senders |-> 0]
    /\ rcv_pc' = "idle"
    /\ rcv_got' = [s \in Senders |-> <<>>]
    /\ UNCHANGED ch_rest

\* ChannelSender::send, the send on the crossbeam sender: blocks while a
\* bounded channel is full.
SendEnqueue(s) ==
    /\ ch.created
    /\ snd_pc[s] = "idle"
    /\ snd_n[s] < MaxMsgs
    /\ HasRoom(ch_q, ChannelLimit(ch.base_on, ch.cap))
    /\ ch_q' = Append(ch_q, [sender |-> s, n |-> snd_n[s] + 1])
    /\ snd_n' = [snd_n EXCEPT ![s] = @ + 1]
    /\ snd_pc' = [snd_pc EXCEPT ![s] = "size"]
    /\ UNCHANGED <<ch, metrics, rcv_pc, rcv_got, ch_rest>>

\* ChannelSender::send, after the message is accepted: size gauge + 1.
SendSize(s) ==
    /\ snd_pc[s] = "size"
    /\ metrics' = [metrics EXCEPT ![SenderGauge] = @ + 1]
    /\ snd_pc' = [snd_pc EXCEPT ![s] = "accepted"]
    /\ UNCHANGED <<ch, ch_q, snd_n, rcv_pc, rcv_got, ch_rest>>

\* ChannelSender::send, then: accepted counter + 1, and send returns.
SendAccepted(s) ==
    /\ snd_pc[s] = "accepted"
    /\ metrics' = [metrics EXCEPT ![SenderCounter] = @ + 1]
    /\ snd_pc' = [snd_pc EXCEPT ![s] = "idle"]
    /\ UNCHANGED <<ch, ch_q, snd_n, rcv_pc, rcv_got, ch_rest>>

\* ChannelReceiver::recv, the recv on the crossbeam receiver: blocks while
\* the queue is empty, then takes the oldest message.
RecvDequeue ==
    /\ ch.created
    /\ rcv_pc = "idle"
    /\ ch_q # <<>>
    /\ rcv_got' = [rcv_got EXCEPT ![RecvTake(ch_q).element.sender] =
                                   Append(@, RecvTake(ch_q).element.n)]
    /\ ch_q' = RecvTake(ch_q).rest
    /\ rcv_pc' = "size"
    /\ UNCHANGED <<ch, metrics, snd_pc, snd_n, ch_rest>>

\* ChannelReceiver::recv, after a message is taken: size gauge - 1.
RecvSize ==
    /\ rcv_pc = "size"
    /\ metrics' = [metrics EXCEPT ![ReceiverGauge] = @ - 1]
    /\ rcv_pc' = "drain"
    /\ UNCHANGED <<ch, ch_q, snd_pc, snd_n, rcv_got, ch_rest>>

\* ChannelReceiver::recv, then: drain counter + 1, and recv returns.
RecvDrain ==
    /\ rcv_pc = "drain"
    /\ metrics' = [metrics EXCEPT ![ReceiverCounter] = @ + 1]
    /\ rcv_pc' = "idle"
    /\ UNCHANGED <<ch, ch_q, snd_pc, snd_n, rcv_got, ch_rest>>

\* crossbeam: the channel is disconnected for the receiver when no message
\* is queued and every sender (the original and its clones) is dropped.
\* A faulty variant of Disconnected: one dropped sender is enough.
DisconnectedAnyDropped(q, pcs) ==
    /\ q = <<>>
    /\ \E s \in Senders : pcs[s] = "dropped"

Disconnected(q, pcs) ==
    /\ q = <<>>
    /\ \A s \in Senders : pcs[s] = "dropped"

\* The end of a sending thread of the tests: after its loop of sends the
\* thread returns and its sender clone is dropped (the original sender is
\* dropped by drop(sender) right after the threads are spawned).
DropSender(s) ==
    /\ ch.created
    /\ snd_pc[s] = "idle"
    /\ snd_n[s] = MaxMsgs
    /\ snd_pc' = [snd_pc EXCEPT ![s] = "dropped"]
    /\ UNCHANGED <<ch, ch_q, metrics, snd_n, rcv_pc, rcv_got, ch_rest>>

\* ChannelReceiver::recv returning Err: `while let Ok(_) = receiver.recv()`
\* leaves its loop.
RecvDisconnected ==
    /\ ch.created
    /\ rcv_pc = "idle"
    /\ Disconnected(ch_q, snd_pc)
    /\ rcv_pc' = "disconnected"
    /\ UNCHANGED <<ch, ch_q, metrics, snd_pc, snd_n, rcv_got, ch_rest>>

ChannelInit ==
    /\ ChIdle
    /\ SplitsIdle
    /\ InIdle
    /\ CnIdle

ChannelNext ==
    \/ \E cap \in 1..MaxCap : \E base_on \in {"Bounded", "Unbounded"} :
           NamedChannelWithBase(cap, base_on)
    \/ \E s \in Senders : SendEnqueue(s)
    \/ \E s \in Senders : SendSize(s)
    \/ \E s \in Senders : SendAccepted(s)
    \/ RecvDequeue
    \/ RecvSize
    \/ RecvDrain

SpecChannel == ChannelInit /\ [][ChannelNext]_vars

\* The threads of the tests bounded_test and channel_sender_test: sender
\* threads that each send MaxMsgs messages and end, and one receiver thread
\* in `while let Ok(_) = receiver.recv()`.
ChannelThreadsNext ==
    \/ \E cap \in 1..MaxCap : \E base_on \in {"Bounded", "Unbounded"} :
           NamedChannelWithBase(cap, base_on)
    \/ \E s \in Senders : SendEnqueue(s)
    \/ \E s \in Senders : SendSize(s)
    \/ \E s \in Senders : SendAccepted(s)
    \/ \E s \in Senders : DropSender(s)
    \/ RecvDequeue
    \/ RecvSize
    \/ RecvDrain
    \/ RecvDisconnected

\* Every thread keeps running: weak fairness of each thread's steps. (The
\* sender threads are finite, so a sender waiting for room is overtaken
\* only finitely often and weak fairness is enough.)
SpecChannelThreads ==
    /\ ChannelInit
    /\ [][ChannelThreadsNext]_vars
    /\ \A s \in Senders :
           /\ WF_vars(SendEnqueue(s))
           /\ WF_vars(SendSize(s))
           /\ WF_vars(SendAccepted(s))
           /\ WF_vars(DropSender(s))
    /\ WF_vars(RecvDequeue)
    /\ WF_vars(RecvSize)
    /\ WF_vars(RecvDrain)
    /\ WF_vars(RecvDisconnected)

----------------------------------------------------------------------------
(* Claims about the channel.                                               *)

\* No send and no receive is in progress.
Quiescent ==
    /\ ch.created
    /\ \A s \in Senders : snd_pc[s] = "idle"
    /\ rcv_pc = "idle"

\* C10: for a channel created with base Bounded and capacity K, the number
\* of queued elements is at most K in every reachable state, and whenever
\* no send or receive is in progress the size gauge equals the accepted
\* counter minus the drain counter.
C10_BoundedSizeAndMetrics ==
    (ch.created /\ ch.base_on = "Bounded") =>
        /\ Len(ch_q) <= ch.cap
        /\ Quiescent => metrics.size = metrics.accepted - metrics.drain

C10_Witness ==
    /\ Quiescent
    /\ ch.base_on = "Bounded"
    /\ Len(ch_q) = ch.cap
    /\ metrics.drain > 0
    /\ metrics.size = ch.cap

\* The messages of sender s still queued, oldest first.
RECURSIVE QueuedFrom(_, _)
QueuedFrom(q, s) ==
    IF q = <<>> THEN <<>>
    ELSE IF Head(q).sender = s THEN <<Head(q).n>> \o QueuedFrom(Tail(q), s)
    ELSE QueuedFrom(Tail(q), s)

\* Every message sender s has sent is either received once or queued once.
NoneDroppedNoneTwice ==
    \A s \in Senders :
        rcv_got[s] \o QueuedFrom(ch_q, s) = [i \in 1..snd_n[s] |-> i]

\* A send on a Bounded channel holding cap messages does not enqueue.
FullBlocksSend ==
    (ch.created /\ ch.base_on = "Bounded" /\ Len(ch_q) = ch.cap)
        => Len(ch_q') <= Len(ch_q)

\* A sender thread is inside send, waiting for room.
SendBlocked(s) ==
    /\ ch.created
    /\ snd_pc[s] = "idle"
    /\ snd_n[s] < MaxMsgs
    /\ ~HasRoom(ch_q, ChannelLimit(ch.base_on, ch.cap))

AllReceived == \A s \in Senders : Len(rcv_got[s]) = MaxMsgs

\* C11: on a Bounded channel of capacity K a send issued while K elements
\* are queued does not enqueue until the consumer has taken one; every send
\* eventually completes while the consumer keeps receiving; and every
\* message sent is received exactly once, none dropped.
C11_BoundedBackpressure ==
    /\ [][FullBlocksSend]_vars
    /\ [](ch.created => NoneDroppedNoneTwice)
    /\ \A s \in Senders : SendBlocked(s) ~> ~SendBlocked(s)
    /\ (ch.created /\ ch.base_on = "Bounded") ~> AllReceived

C11_Witness ==
    /\ ch.base_on = "Bounded"
    /\ ch.cap = 1
    /\ SendBlocked(1)
    /\ snd_n[2] = MaxMsgs
    /\ Len(rcv_got[2]) = MaxMsgs
    /\ snd_n[1] > 0

\* recv has returned Err: the receiving loop has ended.
LoopEnded == rcv_pc = "disconnected"

AllDropped == \A s \in Senders : snd_pc[s] = "dropped"

\* C12: with several sender clones sending concurrently the receiver gets
\* every message sent, and recv reports disconnection only after every
\* sender is dropped and the queue is drained; the loop
\* `while let Ok(_) = receiver.recv()` ends exactly then.
C12_DisconnectAfterAllDropped ==
    /\ [](LoopEnded => (AllDropped /\ ch_q = <<>> /\ AllReceived))
    /\ (ch.created /\ AllDropped /\ ch_q = <<>>) ~> LoopEnded

C12_Witness ==
    /\ LoopEnded
    /\ ch.base_on = "Unbounded"
    /\ AllReceived
    /\ metrics.drain = MaxSenders * MaxMsgs

----------------------------------------------------------------------------
(* ElasticsearchOutputFormat (open, write_record, close) and               *)
(* ElasticsearchWriteThread (run, run0, batch_send, flush).                *)

Writers == 1..MaxWriters

\* A faulty variant of Bodies: the document alone, without its action line.
BodiesDocumentOnly(record) == << [kind |-> "source", record |-> record] >>

\* batch_send pushes two bodies for each record it polls: the index action
\* line, then the document.
Bodies(record) ==
    << [kind |-> "index", record |-> record],
       [kind |-> "source", record |-> record] >>

\* The records of a vector of bulk bodies.
RecordsOf(bulk_bodies) ==
    {bulk_bodies[i].record : i \in 1..Len(bulk_bodies)}

\* The number of iterations `for _ in 0..self.batch_size` has made: each
\* iteration that did not break pushed two bodies.
Polled(bulk_bodies) == Len(bulk_bodies) \div 2

\* open: the Handover is created and the thread "elastic-sink-block" is
\* spawned; the thread has not run yet.
EsOpen ==
    /\ es_state = "created"
    /\ es_state' = "opened"
    /\ es_handover' = <<>>
    /\ UNCHANGED <<es_accepted, es_writers, es_fails, es_written, es_bulks,
                   es_rest>>

\* write_record: handover.produce(record).unwrap(); produce waits while the
\* Handover holds its capacity.
WriteRecord ==
    /\ es_state = "opened"
    /\ es_accepted < MaxRecords
    /\ Len(es_handover) < MaxHandover
    /\ es_handover' = Append(es_handover, es_accepted + 1)
    /\ es_accepted' = es_accepted + 1
    /\ UNCHANGED <<es_state, es_writers, es_fails, es_written, es_bulks,
                   es_rest>>

\* close: Ok(()).
EsClose ==
    /\ es_state = "opened"
    /\ es_state' = "closed"
    /\ UNCHANGED <<es_handover, es_accepted, es_writers, es_fails,
                   es_written, es_bulks, es_rest>>

\* The closed output format is dropped, and with it the producer's clone of
\* the Handover; the write thread keeps its own clones.
EsDrop ==
    /\ es_state = "closed"
    /\ es_state' = "dropped"
    /\ UNCHANGED <<es_handover, es_accepted, es_writers, es_fails,
                   es_written, es_bulks, es_rest>>

\* run(convert, parallelism), on the spawned thread: one run0 task is
\* spawned per unit of parallelism, each entering batch_send.
Run ==
    /\ es_state # "created"
    /\ \A w \in Writers : es_writers[w].pc = "off"
    /\ es_writers' = [w \in Writers |-> [pc |-> "loop", bulk_bodies |-> <<>>]]
    /\ UNCHANGED <<es_state, es_handover, es_accepted, es_fails, es_written,
                   es_bulks, es_rest>>

\* batch_send, `for _ in 0..self.batch_size`: the task calls
\* self.handover.try_poll_next().
TryPollNextCall(w) ==
    /\ es_writers[w].pc = "loop"
    /\ es_writers' = [es_writers EXCEPT ![w].pc = "try_poll_next"]
    /\ UNCHANGED <<es_state, es_handover, es_accepted, es_fails, es_written,
                   es_bulks, es_rest>>

\* try_poll_next returns. Ok(record): the two bodies are pushed and the for
\* loop goes on until batch_size records are polled. Err: break. After the
\* loop comes flush.
TryPollNextReturn(w) ==
    /\ es_writers[w].pc = "try_poll_next"
    /\ IF es_handover # <<>>
       THEN LET bulk == es_writers[w].bulk_bodies \o Bodies(Head(es_handover))
            IN  /\ es_handover' = Tail(es_handover)
                /\ es_writers' = [es_writers EXCEPT ![w] =
                       [pc |-> IF Polled(bulk) < MaxBatch
                               THEN "loop" ELSE "flush",
                        bulk_bodies |-> bulk]]
       ELSE /\ es_writers' = [es_writers EXCEPT ![w].pc = "flush"]
            /\ UNCHANGED es_handover
    /\ UNCHANGED <<es_state, es_accepted, es_fails, es_written, es_bulks,
                   es_rest>>

\* flush with no body: `return Ok(true)` without a request; batch_send
\* returns Ok(0) and run0 sleeps one second.
FlushEmpty(w) ==
    /\ es_writers[w].pc = "flush"
    /\ es_writers[w].bulk_bodies = <<>>
    /\ es_writers' = [es_writers EXCEPT ![w].pc = "async_sleep"]
    /\ UNCHANGED <<es_state, es_handover, es_accepted, es_fails, es_written,
                   es_bulks, es_rest>>

\* flush: the bulk request succeeds (`errors` is false); batch_send returns
\* Ok(len) with len > 0 and run0 loops at once.
FlushOk(w) ==
    /\ es_writers[w].pc = "flush"
    /\ es_writers[w].bulk_bodies # <<>>
    /\ es_written' = es_written \cup RecordsOf(es_writers[w].bulk_bodies)
    /\ es_bulks' = Append(es_bulks, es_writers[w].bulk_bodies)
    /\ es_writers' = [es_writers EXCEPT ![w] =
                          [pc |-> "loop", bulk_bodies |-> <<>>]]
    /\ UNCHANGED <<es_state, es_handover, es_accepted, es_fails, es_rest>>

\* flush: the bulk request fails (transport error, no `errors` field, or
\* `errors` is true). `?` returns the error from batch_send, bulk_bodies
\* (moved into flush) is gone, and run0 logs the error and sleeps 100 ms.
FlushErr(w) ==
    /\ es_writers[w].pc = "flush"
    /\ es_writers[w].bulk_bodies # <<>>
    /\ es_fails < MaxFails
    /\ es_fails' = es_fails + 1
    /\ es_bulks' = Append(es_bulks, es_writers[w].bulk_bodies)
    /\ es_writers' = [es_writers EXCEPT ![w] =
                          [pc |-> "async_sleep", bulk_bodies |-> <<>>]]
    /\ UNCHANGED <<es_state, es_handover, es_accepted, es_written, es_rest>>

\* async_sleep is over: run0's `loop` calls batch_send again.
AsyncSleepDone(w) ==
    /\ es_writers[w].pc = "async_sleep"
    /\ es_writers' = [es_writers EXCEPT ![w].pc = "loop"]
    /\ UNCHANGED <<es_state, es_handover, es_accepted, es_fails, es_written,
                   es_bulks, es_rest>>

\* One step of the run0 task w.
Run0(w) ==
    \/ TryPollNextCall(w)
    \/ TryPollNextReturn(w)
    \/ FlushEmpty(w)
    \/ FlushOk(w)
    \/ FlushErr(w)
    \/ AsyncSleepDone(w)

EsInit ==
    /\ EsIdle
    /\ SplitsIdle
    /\ InIdle
    /\ ChIdle
    /\ KfIdle
    /\ CkIdle
    /\ VsIdle
    /\ CbIdle
    /\ RmIdle
    /\ SoIdle
    /\ IifIdle

EsNext ==
    \/ EsOpen
    \/ WriteRecord
    \/ EsClose
    \/ EsDrop
    \/ Run
    \/ \E w \in Writers : TryPollNextCall(w)
    \/ \E w \in Writers : TryPollNextReturn(w)
    \/ \E w \in Writers : FlushEmpty(w)
    \/ \E w \in Writers : FlushOk(w)
    \/ \E w \in Writers : FlushErr(w)
    \/ \E w \in Writers : AsyncSleepDone(w)

\* The spawned thread and each of its tasks keep running on the async
\* runtime: weak fairness of their steps. At most MaxFails bulk requests
\* fail, so bulk requests eventually succeed.
SpecEsSink ==
    /\ EsInit
    /\ [][EsNext]_vars
    /\ WF_vars(Run)
    /\ \A w \in Writers : WF_vars(Run0(w))

----------------------------------------------------------------------------
(* Claims about the Elasticsearch sink, checked under SpecEsSink.          *)

\* C13: every record accepted by write_record is eventually contained in a
\* bulk request that succeeds, provided bulk requests eventually succeed
\* (the records of a failed bulk request are sent again).
C13_AcceptedEventuallyWritten ==
    \A r \in 1..MaxRecords : (es_accepted >= r) ~> (r \in es_written)

\* C14: when close() has returned, no record passed to write_record is
\* still waiting in the sink's Handover.
C14_CloseLeavesNothingQueued ==
    es_state = "closed" => es_handover = <<>>

\* C15: at any time at most one task is inside try_poll_next of the sink's
\* Handover.
C15_SingleConsumer ==
    Cardinality({w \in Writers : es_writers[w].pc = "try_poll_next"}) <= 1

\* C16: after the sink is closed and the producer's Handover is dropped,
\* every writer task started by open eventually terminates.
C16_WritersTerminate ==
    (es_state = "dropped") ~> (\A w \in Writers : es_writers[w].pc = "returned")

\* The vectors of bodies that exist: those of the bulk requests issued and
\* the one each writer task is filling.
BodyVectors ==
    es_bulks \o [w \in 1..MaxWriters |-> es_writers[w].bulk_bodies]

\* The places (vector, position) of the documents of a record.
PlacedAt(record) ==
    {p \in (1..Len(BodyVectors)) \X (1..(2 * MaxBatch + 2)) :
        /\ p[2] <= Len(BodyVectors[p[1]])
        /\ BodyVectors[p[1]][p[2]] = [kind |-> "source", record |-> record]}

\* C27: with several writer tasks polling one Handover, every record is
\* placed in at most one bulk request; a bulk request holds at most
\* batch_size records, each as two bodies, the action line and then the
\* document; and no bulk request is issued with no body.
C27_EachRecordInOneBulk ==
    /\ \A record \in 1..MaxRecords : Cardinality(PlacedAt(record)) <= 1
    /\ \A b \in 1..Len(es_bulks) :
           LET bulk == es_bulks[b]
           IN  /\ Len(bulk) > 0
               /\ Len(bulk) % 2 = 0
               /\ Len(bulk) <= 2 * MaxBatch
               /\ \A j \in 1..(Len(bulk) \div 2) :
                      /\ bulk[2 * j - 1].kind = "index"
                      /\ bulk[2 * j].kind = "source"
                      /\ bulk[2 * j - 1].record = bulk[2 * j].record

C27_Witness ==
    /\ \E b \in 1..Len(es_bulks) : Len(es_bulks[b]) = 2 * MaxBatch
    /\ \E w \in Writers : es_writers[w].bulk_bodies # <<>>
    /\ \A w \in Writers : es_writers[w].pc # "off"

----------------------------------------------------------------------------
(* KafkaInputFormat as a source task: open, consumer_ranges, and its       *)
(* CheckpointFunction (initialize_state, snapshot_state).                  *)

Offsets == 0..MaxOffset

\* Offset::End.to_raw().
OffsetEnd == -1

\* The configured offset_range, as far as it concerns the task's topic and
\* partition. Direct: begin_offset has no entry for the topic, or for the
\* topic but not the partition, or an offset. Timestamp: begin_timestamp
\* has an entry for the topic or not.
OffsetRanges ==
    {[kind |-> "None"]}
    \cup {[kind |-> "Direct", topic |-> FALSE, begin |-> None]}
    \cup {[kind |-> "Direct", topic |-> TRUE, begin |-> b] :
              b \in {None} \cup {Some(o) : o \in Offsets}}
    \cup {[kind |-> "Timestamp", begin_timestamp |-> b] : b \in BOOLEAN}

\* What the broker answers to offsets_for_times: an error, no offset for
\* the partition, or an offset.
BrokerAnswers ==
    {[kind |-> "Err"]}
    \cup {[kind |-> "Ok", found |-> f] :
              f \in {None} \cup {Some(o) : o \in Offsets}}

\* consumer_ranges, the arm OffsetRange::None: state.get().
BeginPartitionNone(checkpoint) == checkpoint.v.state

\* consumer_ranges(topic, partition) with the broker's answer: the
\* begin_offset of the ConsumerRange, an Err, or a panic of an unwrap.
consumer_ranges(offset_range, checkpoint, broker) ==
    LET ok(begin_partition) ==
            [kind |-> "Ok",
             begin_offset |-> IF begin_partition.some
                              THEN begin_partition.v ELSE OffsetEnd]
    IN  CASE offset_range.kind = "None" ->
                 ok(BeginPartitionNone(checkpoint))
          [] offset_range.kind = "Direct" ->
                 IF offset_range.topic THEN ok(offset_range.begin)
                 ELSE [kind |-> "Panic"]
          [] offset_range.kind = "Timestamp" ->
                 IF ~offset_range.begin_timestamp THEN ok(None)
                 ELSE IF broker.kind = "Err" THEN [kind |-> "Err"]
                 ELSE ok(broker.found)

\* KafkaCheckpointFunction::new: no offset recorded yet.
NewCheckpoint == Some([state |-> None])

\* KafkaCheckpointFunction::initialize_state(context, handle): the offset
\* the handle records becomes the state.
InstallHandle(checkpoint, handle) ==
    IF handle.some THEN Some([state |-> handle]) ELSE checkpoint

\* The runtime invokes initialize_state(context, handle) on the input
\* format: self.checkpoint.as_mut().unwrap().initialize_state(..). The
\* unwrap panics while self.checkpoint is None, that is before open.
InitializeState ==
    /\ kf_pc \in {"created", "opened"}
    /\ kf_calls.by_runtime < MaxRuntimeCalls
    /\ kf_calls' = [kf_calls EXCEPT
                       !.initialize_state = @ + 1,
                       !.by_runtime = @ + 1,
                       !.before_open = IF kf_pc = "created" THEN @ + 1 ELSE @]
    /\ IF kf_checkpoint.some
       THEN /\ kf_checkpoint' = InstallHandle(kf_checkpoint, kf_handle)
            /\ UNCHANGED kf_pc
       ELSE /\ kf_pc' = "panicked in initialize_state"
            /\ UNCHANGED kf_checkpoint
    /\ UNCHANGED <<kf_offset_range, kf_handle, kf_range, kf_barriers,
                   kf_snapshot, kf_rest>>

\* open(input_split, context): self.checkpoint is set, open itself calls
\* initialize_state with context.checkpoint_handle, then consumer_ranges
\* (..).unwrap() gives the range for create_kafka_consumer.
KafkaOpen(broker) ==
    /\ kf_pc = "created"
    /\ LET checkpoint == InstallHandle(NewCheckpoint, kf_handle)
           ranges == consumer_ranges(kf_offset_range, checkpoint, broker)
       IN  /\ kf_checkpoint' = checkpoint
           /\ kf_calls' = [kf_calls EXCEPT !.initialize_state = @ + 1]
           /\ IF ranges.kind = "Ok"
              THEN /\ kf_range' = Some(ranges.begin_offset)
                   /\ kf_pc' = "opened"
              ELSE /\ kf_range' = None
                   /\ kf_pc' = "panicked in open"
    /\ UNCHANGED <<kf_offset_range, kf_handle, kf_barriers, kf_snapshot,
                   kf_rest>>

\* The record iterator reads a record and records its offset in the state
\* it shares with the checkpoint function.
ReadRecord(offset) ==
    /\ kf_pc = "opened"
    /\ ~kf_checkpoint.v.state.some \/ kf_checkpoint.v.state.v < offset
    /\ kf_checkpoint' = Some([state |-> Some(offset)])
    /\ UNCHANGED <<kf_offset_range, kf_handle, kf_pc, kf_range, kf_calls,
                   kf_barriers, kf_snapshot, kf_rest>>

\* A faulty variant of snapshot_state: offset 0 is reported while there is
\* no checkpoint function.
snapshot_stateDefault(checkpoint) ==
    IF checkpoint.some THEN checkpoint.v.state ELSE Some(0)

\* snapshot_state(context): Some(checkpoint) => checkpoint.snapshot_state
\* (the handle of the current state), None => None.
snapshot_state(checkpoint) ==
    IF checkpoint.some THEN checkpoint.v.state ELSE None

\* The task operates a barrier: the runtime calls snapshot_state.
SnapshotState ==
    /\ kf_pc \in {"created", "opened"}
    /\ kf_barriers < MaxBarriers
    /\ kf_barriers' = kf_barriers + 1
    /\ kf_calls' = [kf_calls EXCEPT !.snapshot_state = @ + 1]
    /\ kf_snapshot' = snapshot_state(kf_checkpoint)
    /\ UNCHANGED <<kf_offset_range, kf_handle, kf_checkpoint, kf_pc,
                   kf_range, kf_rest>>

KafkaTaskInit ==
    /\ kf_offset_range \in OffsetRanges
    /\ kf_handle \in {None} \cup {Some(o) : o \in Offsets}
    /\ kf_checkpoint = None
    /\ kf_pc = "created"
    /\ kf_range = None
    /\ kf_calls = [initialize_state |-> 0, before_open |-> 0,
                   by_runtime |-> 0, snapshot_state |-> 0]
    /\ kf_barriers = 0
    /\ kf_snapshot = None
    /\ SplitsIdle
    /\ InIdle
    /\ ChIdle
    /\ EsIdle
    /\ CkIdle
    /\ VsIdle
    /\ CbIdle
    /\ RmIdle
    /\ SoIdle
    /\ IifIdle

KafkaTaskNext ==
    \/ InitializeState
    \/ \E broker \in BrokerAnswers : KafkaOpen(broker)
    \/ \E offset \in Offsets : ReadRecord(offset)
    \/ SnapshotState

SpecKafkaTask == KafkaTaskInit /\ [][KafkaTaskNext]_vars

----------------------------------------------------------------------------
(* Claims about the Kafka source task, checked under SpecKafkaTask.        *)

\* C17: initialize_state is invoked exactly once and before open, and
\* snapshot_state once per barrier; the call of initialize_state before
\* open completes normally and installs the given handle.
C17_InitializeOnceBeforeOpen ==
    /\ kf_calls.initialize_state <= 1
    /\ kf_calls.snapshot_state = kf_barriers
    /\ kf_calls.before_open > 0 =>
           /\ kf_pc # "panicked in initialize_state"
           /\ kf_handle.some => (kf_checkpoint.some
                                 /\ kf_checkpoint.v.state = kf_handle)

\* C18: when the task is opened with a checkpoint handle that records
\* offset o, the consumer range starts at begin_offset = o, for every
\* configured offset_range (None, Direct, Timestamp).
C18_ResumesFromCheckpoint ==
    (kf_pc = "opened" /\ kf_handle.some) =>
        (kf_range.some /\ kf_range.v = kf_handle.v)

\* A step that is a call of snapshot_state, and one that is a call of
\* initialize_state by the runtime.
SnapshotStateCalled ==
    kf_calls'.snapshot_state # kf_calls.snapshot_state

InitializeStateCalled ==
    kf_calls'.by_runtime # kf_calls.by_runtime

\* C30: snapshot_state on an input format that has not been opened returns
\* None and changes nothing of it; after open it returns what the
\* checkpoint function returns, the handle of its current state; a call of
\* initialize_state panics exactly when open has not yet created the
\* checkpoint function.
C30_SnapshotBeforeOpenIsNone ==
    [][/\ SnapshotStateCalled =>
              /\ UNCHANGED <<kf_checkpoint, kf_pc, kf_range>>
              /\ kf_pc = "created" => kf_snapshot' = None
              /\ kf_pc = "opened" => kf_snapshot' = kf_checkpoint.v.state
       /\ InitializeStateCalled =>
              /\ kf_pc = "created" => kf_pc' = "panicked in initialize_state"
              /\ kf_pc = "opened" =>
                     /\ kf_pc' = "opened"
                     /\ kf_checkpoint' = InstallHandle(kf_checkpoint, kf_handle)
      ]_vars

C30_Witness ==
    /\ kf_pc = "panicked in initialize_state"
    /\ kf_calls.snapshot_state = MaxBarriers
    /\ kf_snapshot = None
    /\ kf_handle.some

----------------------------------------------------------------------------
(* CheckpointStorage: new, and save / load / load_by_checkpoint_id, each   *)
(* forwarded to the backend of the variant.                                *)

Apps == 1..MaxApps
CheckpointIds == 1..MaxCheckpointId

\* The vector finish_cks the coordinator passes for checkpoint_id of an
\* application with n tasks: one Checkpoint per task.
FinishCks(app, checkpoint_id, n) ==
    [i \in 1..n |-> [task_number |-> i, checkpoint_id |-> checkpoint_id,
                     handle |-> <<app, checkpoint_id, i>>]]

\* The backends' contract: save stores the whole vector under
\* (application, checkpoint_id) in one step.
BackendSave(store, app, checkpoint_id, finish_cks) ==
    [store EXCEPT ![app][checkpoint_id] = finish_cks]

\* The backends' contract: load_by_checkpoint_id returns the vector stored
\* under that id.
BackendLoadByCheckpointId(store, app, checkpoint_id) ==
    store[app][checkpoint_id]

\* The backends' contract: load returns the vector of the latest
\* checkpoint_id stored for the application (nothing stored: empty).
BackendLoad(store, app) ==
    LET ids == {id \in CheckpointIds : store[app][id] # <<>>}
    IN  IF ids = {} THEN <<>>
        ELSE store[app][CHOOSE id \in ids : \A other \in ids : other <= id]

\* CheckpointStorage::new(checkpoint_backend).
New(checkpoint_backend) ==
    /\ ck_storage = "none"
    /\ ck_storage' = IF checkpoint_backend = "Memory"
                     THEN "MemoryCheckpointStorage"
                     ELSE "MySqlCheckpointStorage"
    /\ UNCHANGED <<ck_memory, ck_mysql, ck_saved, ck_rest>>

\* save(application_name, application_id, checkpoint_id, finish_cks, ttl)
\* returning Ok: `match self` hands the same arguments to the backend of
\* the variant.
Save(app, checkpoint_id, n) ==
    /\ ck_storage # "none"
    /\ ck_saved[app][checkpoint_id].result = "none"
    /\ Cardinality({k \in Apps \X CheckpointIds :
                        ck_saved[k[1]][k[2]].result # "none"}) < MaxSaves
    /\ LET finish_cks == FinishCks(app, checkpoint_id, n)
       IN  /\ IF ck_storage = "MemoryCheckpointStorage"
              THEN /\ ck_memory' = BackendSave(ck_memory, app, checkpoint_id,
                                               finish_cks)
                   /\ UNCHANGED ck_mysql
              ELSE /\ ck_mysql' = BackendSave(ck_mysql, app, checkpoint_id,
                                              finish_cks)
                   /\ UNCHANGED ck_memory
           /\ ck_saved' = [ck_saved EXCEPT ![app][checkpoint_id] =
                               [finish_cks |-> finish_cks, result |-> "Ok"]]
    /\ UNCHANGED <<ck_storage, ck_rest>>

\* save returning Err (the backend's anyhow::Result): nothing is stored.
SaveErr(app, checkpoint_id, n) ==
    /\ ck_storage # "none"
    /\ ck_saved[app][checkpoint_id].result = "none"
    /\ Cardinality({k \in Apps \X CheckpointIds :
                        ck_saved[k[1]][k[2]].result # "none"}) < MaxSaves
    /\ ck_saved' = [ck_saved EXCEPT ![app][checkpoint_id] =
                        [finish_cks |-> FinishCks(app, checkpoint_id, n),
                         result |-> "Err"]]
    /\ UNCHANGED <<ck_storage, ck_memory, ck_mysql, ck_rest>>

\* A faulty variant of load: both arms go to the memory backend.
loadFromMemory(app) == BackendLoad(ck_memory, app)

\* load(application_name, application_id): `match self`.
load(app) ==
    IF ck_storage = "MemoryCheckpointStorage"
    THEN BackendLoad(ck_memory, app)
    ELSE BackendLoad(ck_mysql, app)

\* load_by_checkpoint_id(application_name, application_id, checkpoint_id):
\* `match self`.
load_by_checkpoint_id(app, checkpoint_id) ==
    IF ck_storage = "MemoryCheckpointStorage"
    THEN BackendLoadByCheckpointId(ck_memory, app, checkpoint_id)
    ELSE BackendLoadByCheckpointId(ck_mysql, app, checkpoint_id)

CheckpointInit ==
    /\ CkIdle
    /\ SplitsIdle
    /\ InIdle
    /\ ChIdle
    /\ EsIdle
    /\ KfIdle
    /\ VsIdle
    /\ CbIdle
    /\ RmIdle
    /\ SoIdle
    /\ IifIdle

CheckpointNext ==
    \/ \E checkpoint_backend \in {"Memory", "MySql"} : New(checkpoint_backend)
    \/ \E app \in Apps : \E checkpoint_id \in CheckpointIds :
           \E n \in 1..MaxTasks : Save(app, checkpoint_id, n)
    \/ \E app \in Apps : \E checkpoint_id \in CheckpointIds :
           \E n \in 1..MaxTasks : SaveErr(app, checkpoint_id, n)

SpecCheckpoint == CheckpointInit /\ [][CheckpointNext]_vars

----------------------------------------------------------------------------
(* Claims about CheckpointStorage, checked under SpecCheckpoint.           *)

\* The checkpoint ids of the saves of the application that returned Ok.
SavedIds(app) ==
    {id \in CheckpointIds : ck_saved[app][id].result = "Ok"}

----------------------------------------------------------------------------
(* vec_source and the IteratorInputFormat it returns.                      *)

TaskNumbers == 0..(MaxNumTasks - 1)

\* The width of `index as u16`.
U16 == 65536

\* `index as u16`: the usize index truncated to 16 bits.
AsU16(index) == index % U16

\* A faulty variant of Selected: a task also takes the records of the
\* tasks before it.
SelectedUpTo(index, num_tasks, task_number) ==
    AsU16(index) % num_tasks <= task_number

\* The test of the filter_map: index as u16 % num_tasks == task_number.
Selected(index, num_tasks, task_number) ==
    AsU16(index) % num_tasks = task_number

\* data.iter().enumerate().filter_map(..).collect(), from the i-th record
\* of the window on. Each record is kept together with its index in data;
\* the index is not part of the record the task emits.
RECURSIVE FilterMap(_, _, _, _, _)
FilterMap(data, first, i, num_tasks, task_number) ==
    IF i > Len(data) THEN <<>>
    ELSE (IF Selected(first + i - 1, num_tasks, task_number)
          THEN <<[index |-> first + i - 1, record |-> data[i]]>>
          ELSE <<>>)
         \o FilterMap(data, first, i + 1, num_tasks, task_number)

\* The closure of vec_source: task_data for the task of the context.
TaskData(data, first, num_tasks, task_number) ==
    IF num_tasks = 1
    THEN [i \in 1..Len(data) |-> [index |-> first + i - 1, record |-> data[i]]]
    ELSE FilterMap(data, first, 1, num_tasks, task_number)

\* IteratorInputFormat::open(input_split, context): both are stored.
VecOpen(task_number) ==
    /\ task_number < vs_num_tasks
    /\ vs_tasks[task_number].pc = "created"
    /\ vs_tasks' = [vs_tasks EXCEPT ![task_number].pc = "opened"]
    /\ UNCHANGED <<vs_data, vs_first, vs_num_tasks, vs_out, vs_rest>>

\* IteratorInputFormat::record_iter: vec_builder(input_split, context)
\* builds task_data and returns task_data.into_iter().
RecordIter(task_number) ==
    /\ vs_tasks[task_number].pc = "opened"
    /\ vs_tasks' = [vs_tasks EXCEPT ![task_number] =
                        [pc |-> "iterating",
                         task_data |-> TaskData(vs_data, vs_first,
                                                vs_num_tasks, task_number)]]
    /\ UNCHANGED <<vs_data, vs_first, vs_num_tasks, vs_out, vs_rest>>

\* next() on the iterator of the task: the next record of task_data, or
\* None at its end.
VecNext(task_number) ==
    /\ vs_tasks[task_number].pc = "iterating"
    /\ IF vs_tasks[task_number].task_data # <<>>
       THEN /\ vs_out' = [vs_out EXCEPT ![task_number] =
                   Append(@, Head(vs_tasks[task_number].task_data))]
            /\ vs_tasks' = [vs_tasks EXCEPT ![task_number].task_data = Tail(@)]
       ELSE /\ vs_tasks' = [vs_tasks EXCEPT ![task_number].pc = "finished"]
            /\ UNCHANGED vs_out
    /\ UNCHANGED <<vs_data, vs_first, vs_num_tasks, vs_rest>>

\* vec_source(data, schema, parallelism) with num_tasks tasks created. The
\* window of data that is followed starts at index 0 or just below the
\* first index that does not fit 16 bits.
VecSourceInit ==
    /\ vs_data \in UNION {[1..n -> 1..MaxValue] : n \in 0..MaxData}
    /\ vs_first \in {0, U16 - 2}
    /\ vs_num_tasks \in 1..MaxNumTasks
    /\ vs_tasks = [task_number \in TaskNumbers |->
                      [pc |-> IF task_number < vs_num_tasks
                              THEN "created" ELSE "off",
                       task_data |-> <<>>]]
    /\ vs_out = [task_number \in TaskNumbers |-> <<>>]
    /\ SplitsIdle
    /\ InIdle
    /\ ChIdle
    /\ EsIdle
    /\ KfIdle
    /\ CkIdle
    /\ CbIdle
    /\ RmIdle
    /\ SoIdle
    /\ IifIdle

VecSourceNext ==
    \/ \E task_number \in TaskNumbers : VecOpen(task_number)
    \/ \E task_number \in TaskNumbers : RecordIter(task_number)
    \/ \E task_number \in TaskNumbers : VecNext(task_number)

SpecVecSource == VecSourceInit /\ [][VecSourceNext]_vars

----------------------------------------------------------------------------
(* Claims about vec_source, checked under SpecVecSource.                   *)

\* The tasks of the source.
Tasks == {task_number \in TaskNumbers : task_number < vs_num_tasks}

AllFinished == \A task_number \in Tasks : vs_tasks[task_number].pc = "finished"

\* The records a task has emitted, without their indexes.
Emitted(task_number) ==
    [k \in 1..Len(vs_out[task_number]) |-> vs_out[task_number][k].record]

\* The places (task, position) at which the record of index i was emitted.
EmittedAt(i) ==
    {p \in Tasks \X (1..MaxData) :
        /\ p[2] <= Len(vs_out[p[1]])
        /\ vs_out[p[1]][p[2]].index = vs_first + i - 1}

\* C20: with num_tasks = 1 the task emits all records of data in input
\* order; with num_tasks = N > 1 every record of data is emitted by exactly
\* one of the N tasks, and each task emits its records in input order.
C20_EachRecordByOneTask ==
    /\ \A task_number \in Tasks : \A k \in 1..Len(vs_out[task_number]) :
           /\ vs_out[task_number][k].record
                  = vs_data[vs_out[task_number][k].index - vs_first + 1]
           /\ k > 1 => vs_out[task_number][k - 1].index
                           < vs_out[task_number][k].index
    /\ \A i \in 1..Len(vs_data) : Cardinality(EmittedAt(i)) <= 1
    /\ AllFinished =>
           /\ \A i \in 1..Len(vs_data) : Cardinality(EmittedAt(i)) = 1
           /\ vs_num_tasks = 1 => Emitted(0) = vs_data

C20_Witness ==
    /\ AllFinished
    /\ vs_num_tasks = MaxNumTasks
    /\ Len(vs_data) = MaxData
    /\ vs_first > 0
    /\ \E task_number \in Tasks : Len(vs_out[task_number]) >= 2

\* C29: with num_tasks = N > 1 the record at index i of data is emitted by
\* the task whose task_number is i mod N, for every index i, also for the
\* indexes of 65536 and above.
C29_EmittedByIndexModN ==
    vs_num_tasks > 1 =>
        \A task_number \in Tasks : \A k \in 1..Len(vs_out[task_number]) :
            vs_out[task_number][k].index % vs_num_tasks = task_number

----------------------------------------------------------------------------
(* ChannelBaseOn: TryFrom<&str> and Display (channel/mod.rs).  A string   *)
(* is the sequence of its characters.                                      *)

\* The letters the mode strings are written with, and their capitals.
Letters == <<"b", "o", "u", "n", "d", "e", "r">>
Capitals == <<"B", "O", "U", "N", "D", "E", "R">>

\* char::to_uppercase on the characters of the model: a letter gives its
\* capital, any other character itself.
to_uppercase_char(c) ==
    IF \E i \in 1..Len(Letters) : Letters[i] = c
    THEN Capitals[CHOOSE i \in 1..Len(Letters) : Letters[i] = c]
    ELSE c

\* char::to_lowercase on the characters of the model.
to_lowercase_char(c) ==
    IF \E i \in 1..Len(Capitals) : Capitals[i] = c
    THEN Letters[CHOOSE i \in 1..Len(Capitals) : Capitals[i] = c]
    ELSE c

\* A faulty variant of to_lowercase: the string is left as it is.
to_lowercaseIdentity(s) == s

\* str::to_lowercase: every character lower-cased.
to_lowercase(s) == [k \in 1..Len(s) |-> to_lowercase_char(s[k])]

\* The two patterns of the match.
bounded == <<"b", "o", "u", "n", "d", "e", "d">>
unbounded == <<"u", "n">> \o bounded

\* ChannelBaseOn::try_from: the mode of the lower-cased string, or the error
\* carrying the lower-cased string.
try_from(mode_str) ==
    LET lowered == to_lowercase(mode_str) IN
    IF lowered = bounded THEN [kind |-> "Ok", value |-> "Bounded"]
    ELSE IF lowered = unbounded THEN [kind |-> "Ok", value |-> "Unbounded"]
    ELSE [kind |-> "Err", unsupported |-> lowered]

\* A faulty variant of fmt: the two arms are exchanged.
fmtSwapped(self) ==
    IF self = "Bounded" THEN <<"U", "n", "b", "o", "u", "n", "d", "e", "d">>
    ELSE <<"B", "o", "u", "n", "d", "e", "d">>

\* Display::fmt: Bounded is written "Bounded", Unbounded "Unbounded".
fmt(self) ==
    IF self = "Bounded" THEN <<"B", "o", "u", "n", "d", "e", "d">>
    ELSE <<"U", "n", "b", "o", "u", "n", "d", "e", "d">>

\* to_string() of the value at hand: its Display text becomes the string.
DisplayText ==
    /\ cb_value # "none"
    /\ cb_mode_str = <<>>
    /\ cb_result.kind = "none"
    /\ cb_mode_str' = fmt(cb_value)
    /\ UNCHANGED <<cb_result, cb_value, cb_rest>>

\* The call of try_from on the string at hand: a given string, or the
\* Display text of the value once it is written.
TryFrom ==
    /\ cb_result.kind = "none"
    /\ cb_value = "none" \/ cb_mode_str # <<>>
    /\ cb_result' = try_from(cb_mode_str)
    /\ UNCHANGED <<cb_mode_str, cb_value, cb_rest>>

\* The words the argument is drawn from: the two modes and their near
\* misses (empty, a prefix, a missing or extra character, another letter).
ModeWords ==
    { bounded, unbounded, <<>>,
      <<"b", "o", "u", "n", "d">>,
      <<"u", "n", "b", "o", "u", "n", "d">>,
      bounded \o <<" ">>,
      <<" ">> \o bounded,
      <<"r", "o", "u", "n", "d", "e", "d">>,
      <<"u", "n", "b", "o", "u", "n", "d", "e">> }

\* A word in every mix of upper and lower case.
Cased(word) ==
    { [k \in 1..Len(word) |->
          IF k \in uppers THEN to_uppercase_char(word[k]) ELSE word[k]] :
      uppers \in SUBSET (1..Len(word)) }

\* Either a string is given, or a value whose text is still to be written.
ChannelBaseOnInit ==
    /\ cb_value \in {"none", "Bounded", "Unbounded"}
    /\ cb_mode_str \in IF cb_value = "none"
                       THEN UNION {Cased(word) : word \in ModeWords}
                       ELSE {<<>>}
    /\ cb_result = [kind |-> "none"]
    /\ SplitsIdle
    /\ InIdle
    /\ ChIdle
    /\ EsIdle
    /\ KfIdle
    /\ CkIdle
    /\ VsIdle
    /\ RmIdle
    /\ SoIdle
    /\ IifIdle

ChannelBaseOnNext ==
    \/ DisplayText
    \/ TryFrom

SpecChannelBaseOn == ChannelBaseOnInit /\ [][ChannelBaseOnNext]_vars

----------------------------------------------------------------------------
(* Claims about ChannelBaseOn, checked under SpecChannelBaseOn.            *)

\* The string is the word up to the case of its letters.
EqualsIgnoringCase(s, word) ==
    /\ Len(s) = Len(word)
    /\ \A k \in 1..Len(word) : s[k] \in {word[k], to_uppercase_char(word[k])}

\* C21: try_from returns Bounded for exactly the strings that are "bounded"
\* up to case, Unbounded for exactly those that are "unbounded" up to case,
\* and an error for every other string, the empty string included.
C21_TryFromAcceptsTwoModes ==
    cb_result.kind # "none" =>
        /\ cb_result = [kind |-> "Ok", value |-> "Bounded"]
               <=> EqualsIgnoringCase(cb_mode_str, bounded)
        /\ cb_result = [kind |-> "Ok", value |-> "Unbounded"]
               <=> EqualsIgnoringCase(cb_mode_str, unbounded)
        /\ cb_result.kind = "Err"
               <=> /\ ~EqualsIgnoringCase(cb_mode_str, bounded)
                   /\ ~EqualsIgnoringCase(cb_mode_str, unbounded)
        /\ cb_mode_str = <<>> => cb_result.kind = "Err"

C21_Witness ==
    /\ cb_result = [kind |-> "Ok", value |-> "Unbounded"]
    /\ \E k \in 1..Len(cb_mode_str) : cb_mode_str[k] = "B"
    /\ \E k \in 1..Len(cb_mode_str) : cb_mode_str[k] = "d"

\* C31: for each value v of ChannelBaseOn, try_from of the Display text of
\* v returns Ok(v).
C31_DisplayRoundTrip ==
    (cb_value # "none" /\ cb_result.kind # "none") =>
        cb_result = [kind |-> "Ok", value |-> cb_value]

C31_Witness ==
    /\ cb_value = "Unbounded"
    /\ cb_result.kind = "Ok"
    /\ Len(cb_mode_str) = 9
    /\ cb_mode_str[1] = "U"

----------------------------------------------------------------------------
(* ResourceManager (deployment/mod.rs).  The variants themselves are not   *)
(* modelled: a variant answers a call with any result of the call's type.  *)

ClusterModes == {"Local", "Standalone", "YARN", "Kubernetes"}

\* The arguments of a call, taken as one value.
Args == 1..MaxArgs

\* What a variant may answer: prepare returns nothing, worker_allocate
\* Ok(the resource of each task) or Err, stop_workers Ok(()) or Err.
Results(op) ==
    IF op = "prepare" THEN {[kind |-> "()", v |-> 0]}
    ELSE IF op = "worker_allocate"
    THEN {[kind |-> "Ok", v |-> v] : v \in Args} \cup {[kind |-> "Err", v |-> 0]}
    ELSE {[kind |-> "Ok", v |-> 0], [kind |-> "Err", v |-> 0]}

\* ResourceManager::new: the match on context.cluster_mode.  The arm of
\* Kubernetes is the variant with the feature "k8s" and unimplemented!()
\* without it.
new(cluster_mode, k8s) ==
    CASE cluster_mode = "Local" -> "LocalResourceManager"
      [] cluster_mode = "Standalone" -> "StandaloneResourceManager"
      [] cluster_mode = "YARN" -> "YarnResourceManager"
      [] cluster_mode = "Kubernetes" /\ k8s -> "KubernetesResourceManager"
      [] cluster_mode = "Kubernetes" /\ ~k8s -> "panicked"

RmNew ==
    /\ rm_manager = "none"
    /\ rm_manager' = new(rm_cluster_mode, rm_k8s)
    /\ UNCHANGED <<rm_k8s, rm_cluster_mode, rm_called, rm_forwarded, rm_rest>>

\* The match on self of prepare, worker_allocate and stop_workers: the call
\* goes to the variant self holds, and what it answers is returned.
Forward(op, arg, result) ==
    /\ rm_manager \notin {"none", "panicked"}
    /\ Len(rm_called) < MaxCalls
    /\ rm_forwarded' = Append(rm_forwarded,
           [rm |-> rm_manager, op |-> op, arg |-> arg, result |-> result])
    /\ rm_called' = Append(rm_called,
           [op |-> op, arg |-> arg, result |-> result])
    /\ UNCHANGED <<rm_k8s, rm_cluster_mode, rm_manager, rm_rest>>

Prepare ==
    \E arg \in Args : \E result \in Results("prepare") :
        Forward("prepare", arg, result)

WorkerAllocate ==
    \E arg \in Args : \E result \in Results("worker_allocate") :
        Forward("worker_allocate", arg, result)

StopWorkers ==
    \E arg \in Args : \E result \in Results("stop_workers") :
        Forward("stop_workers", arg, result)

ResourceManagerInit ==
    /\ rm_k8s \in BOOLEAN
    /\ rm_cluster_mode \in ClusterModes
    /\ rm_manager = "none"
    /\ rm_called = <<>>
    /\ rm_forwarded = <<>>
    /\ SplitsIdle
    /\ InIdle
    /\ ChIdle
    /\ EsIdle
    /\ KfIdle
    /\ CkIdle
    /\ VsIdle
    /\ CbIdle
    /\ SoIdle
    /\ IifIdle

ResourceManagerNext ==
    \/ RmNew
    \/ Prepare
    \/ WorkerAllocate
    \/ StopWorkers

SpecResourceManager == ResourceManagerInit /\ [][ResourceManagerNext]_vars

----------------------------------------------------------------------------
(* Claims about ResourceManager, checked under SpecResourceManager.        *)

\* The variant of a cluster mode.
VariantOf(cluster_mode) ==
    CASE cluster_mode = "Local" -> "LocalResourceManager"
      [] cluster_mode = "Standalone" -> "StandaloneResourceManager"
      [] cluster_mode = "YARN" -> "YarnResourceManager"
      [] cluster_mode = "Kubernetes" -> "KubernetesResourceManager"

\* C22: for each of the four cluster modes, ResourceManager::new returns
\* the variant of context.cluster_mode, and every call of prepare,
\* worker_allocate and stop_workers reaches that variant and no other, with
\* the same arguments, and returns what the variant answered.
C22_DispatchToMatchingVariant ==
    /\ rm_manager # "none" => rm_manager = VariantOf(rm_cluster_mode)
    /\ Len(rm_forwarded) = Len(rm_called)
    /\ \A k \in 1..Len(rm_called) :
           /\ rm_forwarded[k].rm = VariantOf(rm_cluster_mode)
           /\ rm_forwarded[k].op = rm_called[k].op
           /\ rm_forwarded[k].arg = rm_called[k].arg
           /\ rm_forwarded[k].result = rm_called[k].result

----------------------------------------------------------------------------
(* SystemInputFormat::open (system_input_format.rs).  memory::subscribe    *)
(* and network::subscribe are not modelled beyond the call they receive.   *)

\* pub_sub::DEFAULT_CHANNEL_SIZE.
DEFAULT_CHANNEL_SIZE == 100000

\* ExecutionEdge.
ExecutionEdges == {"Memory", "Network"}

\* The property pub_sub.channel.base when it is not set.
NoChannelBase == [some |-> FALSE, v |-> ""]

\* Option::unwrap_or.
unwrap_or(option, default) == IF option.some THEN option.v ELSE default

\* A faulty variant of Jobs: the task ids of all parents.
JobsOfAllEdges(parents, execution_edge) ==
    [k \in 1..Len(parents) |-> parents[k].task_id]

\* memory_jobs and network_jobs: the task ids of the parents of one edge
\* kind, in the order of context.parents.
Jobs(parents, execution_edge) ==
    LET jobs[k \in 0..Len(parents)] ==
            IF k = 0 THEN <<>>
            ELSE IF parents[k].edge = execution_edge
                 THEN Append(jobs[k - 1], parents[k].task_id)
                 ELSE jobs[k - 1]
    IN jobs[Len(parents)]

\* The call of memory::subscribe or network::subscribe.
Subscribe(function, jobs, channel_size, channel_base_on) ==
    [function |-> function, source_task_ids |-> jobs,
     channel_size |-> channel_size, channel_base_on |-> channel_base_on]

\* SystemInputFormat::open.
SystemOpen ==
    /\ so_pc = "new"
    /\ LET channel_size == unwrap_or(so_channel_size, DEFAULT_CHANNEL_SIZE)
           channel_base_on == unwrap_or(so_channel_base, "Unbounded")
           memory_jobs == Jobs(so_parents, "Memory")
           network_jobs == Jobs(so_parents, "Network")
           memory_calls ==
               IF Len(memory_jobs) > 0
               THEN <<Subscribe("memory::subscribe", memory_jobs,
                                channel_size, channel_base_on)>>
               ELSE <<>>
           network_calls ==
               IF Len(network_jobs) > 0
               THEN <<Subscribe("network::subscribe", network_jobs,
                                channel_size, channel_base_on)>>
               ELSE <<>>
       IN /\ so_subscribed' = so_subscribed \o memory_calls \o network_calls
          /\ so_memory_receiver' =
                 IF Len(memory_jobs) > 0
                 THEN Some(Len(so_subscribed) + 1)
                 ELSE so_memory_receiver
          /\ so_network_receiver' =
                 IF Len(network_jobs) > 0
                 THEN Some(Len(so_subscribed) + Len(memory_calls) + 1)
                 ELSE so_network_receiver
    /\ so_pc' = "opened"
    /\ UNCHANGED <<so_parents, so_channel_size, so_channel_base, so_rest>>

\* context.parents: up to MaxParents tasks, each with its edge.
ParentLists ==
    UNION { [1..n -> [task_id : 1..MaxParents, edge : ExecutionEdges]] :
            n \in 0..MaxParents }

SystemOpenInit ==
    /\ so_parents \in
           {parents \in ParentLists :
                \A j, k \in 1..Len(parents) :
                    j < k => parents[j].task_id < parents[k].task_id}
    /\ so_channel_size \in {None} \cup {Some(size) : size \in 1..MaxChannelSize}
    /\ so_channel_base \in
           {NoChannelBase, [some |-> TRUE, v |-> "Bounded"],
            [some |-> TRUE, v |-> "Unbounded"]}
    /\ so_memory_receiver = None
    /\ so_network_receiver = None
    /\ so_subscribed = <<>>
    /\ so_pc = "new"
    /\ SplitsIdle
    /\ InIdle
    /\ ChIdle
    /\ EsIdle
    /\ KfIdle
    /\ CkIdle
    /\ VsIdle
    /\ CbIdle
    /\ RmIdle
    /\ IifIdle

SystemOpenNext == SystemOpen

SpecSystemOpen == SystemOpenInit /\ [][SystemOpenNext]_vars

----------------------------------------------------------------------------
(* Claims about SystemInputFormat::open, checked under SpecSystemOpen.     *)

\* The calls of subscribe in which a task id was passed, as (call, position).
PassedAt(task_id) ==
    {p \in (1..Len(so_subscribed)) \X (1..MaxParents) :
        /\ p[2] <= Len(so_subscribed[p[1]].source_task_ids)
        /\ so_subscribed[p[1]].source_task_ids[p[2]] = task_id}

\* The function that subscribes the parents of an edge kind.
SubscribeOf(execution_edge) ==
    IF execution_edge = "Memory" THEN "memory::subscribe"
    ELSE "network::subscribe"

\* C23: after open, memory_receiver is set iff some parent edge is Memory
\* and network_receiver is set iff some parent edge is Network; every
\* parent task id is passed to exactly one of memory::subscribe and
\* network::subscribe, the one of its edge kind; and all subscriptions use
\* the same channel size and base, which are the configured ones, or
\* DEFAULT_CHANNEL_SIZE and Unbounded when not configured.
C23_OpenSubscribesByEdgeKind ==
    so_pc = "opened" =>
        /\ so_memory_receiver.some
               <=> \E k \in 1..Len(so_parents) : so_parents[k].edge = "Memory"
        /\ so_network_receiver.some
               <=> \E k \in 1..Len(so_parents) : so_parents[k].edge = "Network"
        /\ so_memory_receiver.some =>
               so_subscribed[so_memory_receiver.v].function
                   = "memory::subscribe"
        /\ so_network_receiver.some =>
               so_subscribed[so_network_receiver.v].function
                   = "network::subscribe"
        /\ \A k \in 1..Len(so_parents) :
               /\ Cardinality(PassedAt(so_parents[k].task_id)) = 1
               /\ \A p \in PassedAt(so_parents[k].task_id) :
                      so_subscribed[p[1]].function
                          = SubscribeOf(so_parents[k].edge)
        /\ \A c \in 1..Len(so_subscribed) :
               /\ so_subscribed[c].channel_size =
                      IF so_channel_size = None THEN DEFAULT_CHANNEL_SIZE
                      ELSE so_channel_size.v
               /\ so_subscribed[c].channel_base_on =
                      IF so_channel_base = NoChannelBase THEN "Unbounded"
                      ELSE so_channel_base.v

C23_Witness ==
    /\ so_pc = "opened"
    /\ Len(so_parents) = MaxParents
    /\ so_memory_receiver.some
    /\ so_network_receiver.some
    /\ so_channel_size = None
    /\ so_channel_base = NoChannelBase

----------------------------------------------------------------------------
(* IteratorInputFormat (vec_input_format.rs): its three Option fields and  *)
(* the calls of open, record_iter and close in any order.  A call that     *)
(* panics leaves the fields as they were at the panic.                     *)

\* A faulty variant of take: the value is left in place.
takeKeep(option) == option

\* Option::take: what is left in the field.
take(option) == None

\* open(input_split, context): both are stored.
open(self, input_split, context) ==
    [self EXCEPT !.input_split = Some(input_split),
                 !.context = Some(context)]

\* record_iter: vec_builder, input_split and context are taken in this
\* order, each with unwrap(), which panics on None; then the builder is
\* called with the split and the context.
record_iter(self) ==
    IF ~self.vec_builder.some
    THEN [self |-> self, result |-> [kind |-> "panic", input_split |-> 0,
                                      context |-> 0]]
    ELSE LET self1 == [self EXCEPT !.vec_builder = take(@)] IN
    IF ~self1.input_split.some
    THEN [self |-> self1, result |-> [kind |-> "panic", input_split |-> 0,
                                       context |-> 0]]
    ELSE LET self2 == [self1 EXCEPT !.input_split = take(@)] IN
    IF ~self2.context.some
    THEN [self |-> self2, result |-> [kind |-> "panic", input_split |-> 0,
                                       context |-> 0]]
    ELSE [self |-> [self2 EXCEPT !.context = take(@)],
          result |-> [kind |-> "iterator",
                      input_split |-> self.input_split.v,
                      context |-> self.context.v]]

IifOpen(input_split, context) ==
    /\ Len(iif_log) < MaxLifecycleCalls
    /\ iif_self' = open(iif_self, input_split, context)
    /\ iif_log' = Append(iif_log,
           [call |-> "open",
            result |-> [kind |-> "Ok", input_split |-> input_split,
                        context |-> context]])
    /\ UNCHANGED iif_rest

IifRecordIter ==
    /\ Len(iif_log) < MaxLifecycleCalls
    /\ iif_self' = record_iter(iif_self).self
    /\ iif_log' = Append(iif_log,
           [call |-> "record_iter", result |-> record_iter(iif_self).result])
    /\ UNCHANGED iif_rest

\* close: Ok(()), nothing changes.
IifClose ==
    /\ Len(iif_log) < MaxLifecycleCalls
    /\ iif_log' = Append(iif_log,
           [call |-> "close",
            result |-> [kind |-> "Ok", input_split |-> 0, context |-> 0]])
    /\ UNCHANGED <<iif_self, iif_rest>>

\* IteratorInputFormat::new.
IteratorInputFormatInit ==
    /\ iif_self = [vec_builder |-> Some(1), input_split |-> None,
                   context |-> None]
    /\ iif_log = <<>>
    /\ SplitsIdle
    /\ InIdle
    /\ ChIdle
    /\ EsIdle
    /\ KfIdle
    /\ CkIdle
    /\ VsIdle
    /\ CbIdle
    /\ RmIdle
    /\ SoIdle

IteratorInputFormatNext ==
    \/ \E input_split \in 1..MaxSplitId : \E context \in 1..MaxSplitId :
           IifOpen(input_split, context)
    \/ IifRecordIter
    \/ IifClose

SpecIteratorInputFormat ==
    IteratorInputFormatInit /\ [][IteratorInputFormatNext]_vars

----------------------------------------------------------------------------
(* Claims about IteratorInputFormat, checked under                         *)
(* SpecIteratorInputFormat.                                                *)

\* The calls of one method before the k-th call.
CallsBefore(call, k) == {j \in 1..(k - 1) : iif_log[j].call = call}

\* C28: record_iter returns an iterator exactly when open was called before
\* it and record_iter was not; in every other order (before open, a second
\* time, a second time after a second open) it panics.
C28_RecordIterOnceAfterOpen ==
    \A k \in 1..Len(iif_log) :
        iif_log[k].call = "record_iter" =>
            IF CallsBefore("open", k) # {} /\ CallsBefore("record_iter", k) = {}
            THEN iif_log[k].result.kind = "iterator"
            ELSE iif_log[k].result.kind = "panic"

C28_Witness ==
    /\ Len(iif_log) = 4
    /\ iif_log[1].call = "open"
    /\ iif_log[2].result.kind = "iterator"
    /\ iif_log[3].call = "open"
    /\ iif_log[4].result.kind = "panic"

====
